---- MODULE Spec2Model ----
(***************************************************************************)
(* Model of the soupape dependency-injection engine: the service           *)
(* collection (soupape/collection.py), the injectors                       *)
(* (soupape/injector/base.py, sync_injector.py, async_injector.py) and the *)
(* resolver strategies (soupape/resolvers/*.py).                           *)
(*                                                                         *)
(* Values held by the instance pool are integers: n > 0 is the n-th object *)
(* ever built (an index into objs), -i is injector i, 0 is "no value".     *)
(***************************************************************************)
EXTENDS Integers, Sequences, FiniteSets, TLC

(***************************************************************************)
(* Bounds of the model.                                                    *)
(***************************************************************************)
MaxScoped == 2
MaxOps == 5
RecursionLimit == 5

(***************************************************************************)
(* InjectionScope (soupape/types.py).                                      *)
(***************************************************************************)
SINGLETON == "SINGLETON"
SCOPED == "SCOPED"
TRANSIENT == "TRANSIENT"
IMMEDIATE == "IMMEDIATE"

None == "None"
NoError == "ok"

(***************************************************************************)
(* The user's types and functions, as the reflection service describes     *)
(* them: constructor parameters (name, declared type, kind), base classes, *)
(* post-init hooks declared on the class itself, context-manager           *)
(* capability.                                                             *)
(***************************************************************************)
Param(n, h, k) == [name |-> n, hint |-> h, kind |-> k]

Class(p, b, h, c) == [params |-> p, bases |-> b, hooks |-> h, cm |-> c]

Classes ==
  [c \in {"Base", "Impl", "Engine", "PartA", "Car",
          "CycA", "CycB", "Cyc3A", "Cyc3B", "Cyc3C", "Selfish",
          "ResA", "ResB", "ResC", "Pair", "Coro", "AGen", "Fut", "Trip",
          "Hooked", "HookedFut", "Managed",
          "HBase", "HMid", "HSide", "HLeaf", "Broken", "Duo",
          "UsesInjector", "UsesSync", "UsesAsync",
          "Table[int, str]", "Table[str, str]", "Table[int, Any]", "Table[Any, Any]",
          "Service[Any]", "ManagedAsync", "NeedsImpl", "Late", "Twin", "Loose",
          "ServiceA", "HookedBroken", "HookedManaged"} |->
     CASE c = "PartA" -> Class(<<Param("engine", "Engine", "pos")>>, <<>>, <<>>, "none")
       [] c = "Impl" -> Class(<<>>, <<"Base">>, <<>>, "none")
       [] c = "Service[Any]" -> Class(<<Param("cls", "type[T]", "pos")>>, <<>>, <<>>, "none")
       [] c = "NeedsImpl" -> Class(<<Param("impl", "Impl", "pos"),
                                     Param("kind", "type[Engine]", "kw")>>,
                                   <<>>, <<>>, "none")
       [] c = "Loose" -> Class(<<Param("engine", "Engine", "pos"), Param("flag", None, "pos")>>,
                               <<>>, <<>>, "none")
       [] c = "Car" -> Class(<<Param("part", "PartA", "pos"), Param("engine", "Engine", "kw")>>,
                             <<>>, <<>>, "none")
       [] c = "CycA" -> Class(<<Param("b", "CycB", "pos")>>, <<>>, <<>>, "none")
       [] c = "CycB" -> Class(<<Param("a", "CycA", "pos")>>, <<>>, <<>>, "none")
       [] c = "Cyc3A" -> Class(<<Param("b", "Cyc3B", "pos")>>, <<>>, <<>>, "none")
       [] c = "Cyc3B" -> Class(<<Param("c", "Cyc3C", "pos")>>, <<>>, <<>>, "none")
       [] c = "Cyc3C" -> Class(<<Param("a", "Cyc3A", "pos")>>, <<>>, <<>>, "none")
       [] c = "Selfish" -> Class(<<Param("me", "Selfish", "pos")>>, <<>>, <<>>, "none")
       [] c = "Pair" -> Class(<<Param("first", "ResA", "pos"), Param("second", "ResB", "pos")>>,
                              <<>>, <<>>, "none")
       [] c = "Twin" -> Class(<<Param("first", "Coro", "pos"), Param("second", "Late", "kw")>>,
                              <<>>, <<>>, "none")
       [] c = "Duo" -> Class(<<Param("first", "Engine", "pos"), Param("second", "Broken", "pos")>>,
                             <<>>, <<>>, "none")
       [] c = "UsesInjector" -> Class(<<Param("injector", "Injector", "pos")>>, <<>>, <<>>, "none")
       [] c = "UsesSync" -> Class(<<Param("injector", "SyncInjector", "pos")>>, <<>>, <<>>, "none")
       [] c = "UsesAsync" -> Class(<<Param("injector", "AsyncInjector", "kw")>>, <<>>, <<>>, "none")
       [] c = "HookedManaged" -> Class(<<Param("engine", "Engine", "pos")>>, <<>>,
                                       <<"hook_plain">>, "sync")
       [] c = "HookedBroken" -> Class(<<>>, <<>>, <<"hook_plain", "hook_broken">>, "none")
       [] c = "ServiceA" -> Class(<<>>, <<>>, <<"setup">>, "none")
       [] c = "Hooked" -> Class(<<>>, <<>>, <<"hook_plain", "hook_async">>, "none")
       [] c = "HookedFut" -> Class(<<>>, <<>>, <<"hook_future">>, "none")
       [] c = "Managed" -> Class(<<>>, <<>>, <<>>, "sync")
       [] c = "ManagedAsync" -> Class(<<>>, <<>>, <<>>, "async")
       [] c = "HBase" -> Class(<<>>, <<>>, <<"init_base", "init_base_more">>, "none")
       [] c = "HMid" -> Class(<<>>, <<"HBase">>, <<"init_mid">>, "none")
       [] c = "HSide" -> Class(<<>>, <<"HBase">>, <<"init_side">>, "none")
       [] c = "HLeaf" -> Class(<<>>, <<"HMid", "HSide">>, <<"init_leaf">>, "none")
       [] OTHER -> Class(<<>>, <<>>, <<>>, "none")]

(***************************************************************************)
(* Functions: resolver functions and post-init hooks.  result is what a    *)
(* call of the function returns: "value", "generator", "asyncgen",         *)
(* "coroutine", "awaitable" (an awaitable that is not a coroutine, such as *)
(* a future) or "raise".  teardown is what the code after the yield of a   *)
(* generator does: "ok" or "raise".                                        *)
(***************************************************************************)
Func(p, r, k, t) == [params |-> p, returns |-> r, result |-> k, teardown |-> t]

SelfParam == Param("self", None, "pos")

Funcs ==
  [f \in {"make_res_a", "make_res_b", "make_res_c", "make_coro", "make_agen",
          "make_future", "hook_plain", "hook_async", "hook_future", "drive",
          "init_base", "init_base_more", "init_mid", "init_side", "init_leaf",
          "make_broken", "make_late", "drive_duo", "drive_loose",
          "hook_broken", "setup", "make_hooked_managed"} |->
     CASE f = "make_res_a" -> Func(<<>>, "ResA", "generator", "ok")
       [] f = "make_res_b" -> Func(<<>>, "ResB", "asyncgen", "ok")
       [] f = "make_res_c" -> Func(<<>>, "ResC", "generator", "raise")
       [] f = "make_hooked_managed" -> Func(<<Param("engine", "Engine", "pos")>>,
                                            "HookedManaged", "value", "ok")
       [] f = "make_broken" -> Func(<<>>, "Broken", "raise", "ok")
       [] f = "make_coro" -> Func(<<>>, "Coro", "coroutine", "ok")
       [] f = "make_late" -> Func(<<>>, "Late", "coroutine", "ok")
       [] f = "make_agen" -> Func(<<>>, "AGen", "asyncgen", "ok")
       [] f = "make_future" -> Func(<<>>, "Fut", "awaitable", "ok")
       [] f = "hook_plain" -> Func(<<SelfParam>>, None, "value", "ok")
       [] f = "hook_async" -> Func(<<SelfParam>>, None, "coroutine", "ok")
       [] f = "hook_broken" -> Func(<<SelfParam>>, None, "raise", "ok")
       [] f = "setup" -> Func(<<SelfParam, Param("service_a", "ServiceA", "pos")>>,
                              None, "coroutine", "ok")
       [] f = "hook_future" -> Func(<<SelfParam>>, None, "awaitable", "ok")
       [] f = "drive" -> Func(<<Param("engine", "Engine", "pos")>>, "Trip", "value", "ok")
       [] f = "drive_duo" -> Func(<<Param("engine", "Engine", "pos"),
                                    Param("duo", "Duo", "kw")>>, "Trip", "value", "ok")
       [] f = "drive_loose" -> Func(<<Param("engine", "Engine", "pos"),
                                      Param("loose", "Loose", "kw")>>, "Trip", "value", "ok")
       [] OTHER -> Func(<<SelfParam>>, None, "value", "ok")]

(***************************************************************************)
(* Descriptor matching of the reflection service: a concrete request       *)
(* matches a more general registration.                                    *)
(***************************************************************************)
GenericMatches ==
  {<<"type[Engine]", "type[Any]">>, <<"TWrap[Engine]", "TWrap[Any]">>,
   <<"type[int]", "type[Any]">>, <<"type[str]", "type[Any]">>,
   <<"Service[int]", "Service[Any]">>, <<"Service[str]", "Service[Any]">>,
   <<"Table[int, str]", "Table[int, Any]">>, <<"Table[int, str]", "Table[Any, Any]">>,
   <<"Table[str, str]", "Table[Any, Any]">>, <<"Table[int, Any]", "Table[Any, Any]">>}

Matches(query, registered) == <<query, registered>> \in GenericMatches

\* get_signature_hints(belongs_to=origin): a hint written with the type
\* parameter of a generic class is read with the argument the origin gives
\* to that parameter.
TypeArguments ==
  ("Service[int]" :> "type[int]") @@ ("Service[str]" :> "type[str]")
    @@ ("Service[Any]" :> "type[Any]")

get_signature_hints(hint, belongs_to) ==
  IF hint = "type[T]" /\ belongs_to \in DOMAIN TypeArguments
  THEN TypeArguments[belongs_to]
  ELSE hint

(***************************************************************************)
(* ServiceCollection (soupape/collection.py).                              *)
(***************************************************************************)
Resolver(k, a, b) == [kind |-> k, a |-> a, b |-> b]

TypeResolverMetadata(scope, interface, implementation, resolver, signature, hints) ==
  [scope |-> scope, interface |-> interface, implementation |-> implementation,
   resolver |-> resolver, signature |-> signature, hints |-> hints, typed |-> TRUE]

ResolverMetadata(scope, signature, hints, resolver) ==
  [scope |-> scope, interface |-> None, implementation |-> None,
   resolver |-> resolver, signature |-> signature, hints |-> hints, typed |-> FALSE]

EmptyCollection == [registered |-> {}, resolvers |-> <<>>]

is_type_like(x) == x \in DOMAIN Classes

callable(x) == x \in DOMAIN Funcs

_unpack_resolver_function_return(f) == Funcs[f].returns

\* The registration shapes: (type), (interface, implementation), (resolver),
\* (resolver, interface).  Any other shape is a TypeError, returned here as
\* metadata whose resolver kind is "invalid".
_unpack_registration_args(scope, args) ==
  IF Len(args) = 1 /\ is_type_like(args[1])
  THEN TypeResolverMetadata(scope, args[1], args[1], Resolver("default", args[1], args[1]),
                            Classes[args[1]].params, Classes[args[1]].params)
  ELSE IF Len(args) = 2 /\ is_type_like(args[1]) /\ is_type_like(args[2])
  THEN TypeResolverMetadata(scope, args[1], args[2], Resolver("default", args[1], args[2]),
                            Classes[args[2]].params, Classes[args[1]].params)
  ELSE IF Len(args) = 1 /\ callable(args[1])
  THEN TypeResolverMetadata(scope, _unpack_resolver_function_return(args[1]),
                            _unpack_resolver_function_return(args[1]),
                            Resolver("func", args[1], None),
                            Funcs[args[1]].params, Funcs[args[1]].params)
  ELSE IF Len(args) = 2 /\ callable(args[1]) /\ is_type_like(args[2])
  THEN TypeResolverMetadata(scope, args[2], _unpack_resolver_function_return(args[1]),
                            Resolver("func", args[1], None),
                            Funcs[args[1]].params, Funcs[args[1]].params)
  ELSE TypeResolverMetadata(scope, None, None, Resolver("invalid", None, None), <<>>, <<>>)

\* A registration that replaces the entry the interface already has.
_add_resolver_overwrite(coll, metadata) ==
  [coll |-> [registered |-> coll.registered \cup {metadata.interface},
             resolvers |-> (metadata.interface :> metadata) @@ coll.resolvers],
   err |-> NoError]

\* Returns the collection after the registration and the error, if any.
_add_resolver(coll, metadata) ==
  IF metadata.interface \in coll.registered
  THEN [coll |-> coll, err |-> "ValueError"]
  ELSE [coll |-> [registered |-> coll.registered \cup {metadata.interface},
                  resolvers |-> (metadata.interface :> metadata) @@ coll.resolvers],
        err |-> NoError]

add_service(coll, scope, args) ==
  LET metadata == _unpack_registration_args(scope, args)
  IN IF metadata.resolver.kind = "invalid" THEN [coll |-> coll, err |-> "TypeError"]
     ELSE _add_resolver(coll, metadata)

contains_matching(coll, interface) ==
  \E r \in coll.registered : Matches(interface, r)

get_matching(coll, interface) ==
  CHOOSE r \in coll.registered : Matches(interface, r)

\* A test that also accepts the implementation of a registration.
is_registered_or_implementation(coll, interface) ==
  \/ interface \in coll.registered
  \/ contains_matching(coll, interface)
  \/ \E r \in coll.registered : coll.resolvers[r].implementation = interface

is_registered(coll, interface) ==
  interface \in coll.registered \/ contains_matching(coll, interface)

\* What get_metadata gives when it raises ServiceNotFoundError.
ServiceNotFoundError(interface) ==
  TypeResolverMetadata(None, interface, None, Resolver("not_found", None, None), <<>>, <<>>)

\* A lookup that prefers a generic match to the exact registration.
get_metadata_matching_first(coll, interface) ==
  IF contains_matching(coll, interface) THEN coll.resolvers[get_matching(coll, interface)]
  ELSE IF interface \in coll.registered THEN coll.resolvers[interface]
  ELSE ServiceNotFoundError(interface)

get_metadata(coll, interface) ==
  IF interface \in coll.registered THEN coll.resolvers[interface]
  ELSE IF contains_matching(coll, interface) THEN coll.resolvers[get_matching(coll, interface)]
  ELSE ServiceNotFoundError(interface)

\* The registrations of a script, applied in order to an empty collection.
RECURSIVE BuildCollection(_, _)
BuildCollection(script, n) ==
  IF n = 0 THEN EmptyCollection
  ELSE add_service(BuildCollection(script, n - 1), script[n].scope, script[n].args).coll

Reg(scope, args) == [scope |-> scope, args |-> args]

(***************************************************************************)
(* InstancePoolStack (soupape/instances.py): a chain of frames, one per    *)
(* injector.  Frame i belongs to injector i; par[i] is the injector whose  *)
(* chain frame i was stacked on (0 for the root).                          *)
(***************************************************************************)
RECURSIVE Chain(_, _)
Chain(par, i) == IF i = 0 THEN <<>> ELSE <<i>> \o Chain(par, par[i])

PoolLen(par, i) == Len(Chain(par, i))

RootOf(par, i) == Chain(par, i)[PoolLen(par, i)]

PoolContains(par, frames, i, twrap) ==
  \E k \in 1..PoolLen(par, i) : twrap \in DOMAIN frames[Chain(par, i)[k]]

PoolGetInstance(par, frames, i, twrap) ==
  LET ch == Chain(par, i)
      k == CHOOSE j \in 1..Len(ch) :
             /\ twrap \in DOMAIN frames[ch[j]]
             /\ \A m \in 1..(j - 1) : twrap \notin DOMAIN frames[ch[m]]
  IN frames[ch[k]][twrap]

PoolSetInstance(par, frames, i, twrap, instance, root) ==
  LET f == IF root THEN RootOf(par, i) ELSE i
  IN [frames EXCEPT ![f] = (twrap :> instance) @@ @]

(***************************************************************************)
(* InjectionContext (soupape/types.py).  positional_args is the sequence   *)
(* of pre-supplied values, None when there is none.                        *)
(***************************************************************************)
InjectionContext(injector, origin, scope, required, positional_args) ==
  [injector |-> injector, origin |-> origin, scope |-> scope, required |-> required,
   has_args |-> positional_args # <<>>, positional_args |-> positional_args]

ContextCopy(context, scope, required) ==
  InjectionContext(context.injector, context.origin, scope, required, <<>>)

(***************************************************************************)
(* BaseInjector (soupape/injector/base.py).  A resolution state s carries  *)
(* what a require or call may change: the frames, the objects, the pending *)
(* resources, the two lists of generators to close per injector and the    *)
(* log of user code that ran.  par and services do not change during an    *)
(* operation and are read from the variables.                              *)
(***************************************************************************)
VARIABLES heap, is_async, parent, _services, frames, objs, resources,
          generators_to_close, async_generators_to_close, exited, last, returned, steps,
          tasks, twin

vars == <<heap, is_async, parent, _services, frames, objs, resources,
          generators_to_close, async_generators_to_close, exited, last, returned, steps,
          tasks, twin>>

\* heap holds the ServiceCollection objects that exist; a collection is
\* referred to by its index.  The first one is the collection the client
\* built and gave to the root injector; _services[i] is the one injector i
\* holds in self._services.
collection == heap[1]

services == [i \in 1..Len(_services) |-> heap[_services[i]]]

is_root_injector(i) == PoolLen(parent, i) = 1

_has_instance(s, i, twrap) == PoolContains(parent, s.frames, i, twrap)

_get_instance(s, i, twrap) == PoolGetInstance(parent, s.frames, i, twrap)

EmptySignature == <<>>

_make_instantiated_resolver(interface, implementation) ==
  TypeResolverMetadata(IMMEDIATE, interface, implementation,
                       Resolver("instantiated", implementation, None),
                       EmptySignature, EmptySignature)

\* Returns the metadata to plan with, or the error.
\* A lookup that gives the registration even when its instance is in the
\* pool.
_get_service_metadata_uncached(s, i, interface) ==
  IF is_registered(services[i], interface)
  THEN [err |-> NoError, md |-> get_metadata(services[i], interface)]
  ELSE IF _has_instance(s, i, interface)
  THEN [err |-> NoError, md |-> _make_instantiated_resolver(interface, interface)]
  ELSE [err |-> "ServiceNotFound", md |-> _make_instantiated_resolver(interface, interface)]

\* A lookup that never falls back on the instances of the pool.
_get_service_metadata_registered_only(s, i, interface) ==
  IF is_registered(services[i], interface)
  THEN [err |-> NoError, md |-> get_metadata(services[i], interface)]
  ELSE [err |-> "ServiceNotFound", md |-> _make_instantiated_resolver(interface, interface)]

_get_service_metadata(s, i, interface) ==
  IF is_registered(services[i], interface)
  THEN LET metadata == get_metadata(services[i], interface)
       IN IF _has_instance(s, i, metadata.implementation)
          THEN [err |-> NoError,
                md |-> _make_instantiated_resolver(metadata.interface, metadata.implementation)]
          ELSE [err |-> NoError, md |-> metadata]
  ELSE IF _has_instance(s, i, interface)
  THEN [err |-> NoError, md |-> _make_instantiated_resolver(interface, interface)]
  ELSE [err |-> "ServiceNotFound", md |-> _make_instantiated_resolver(interface, interface)]

ResolverCallArgs(scope, args, kwargs, resolver, required, register_as) ==
  [scope |-> scope, args |-> args, kwargs |-> kwargs, resolver |-> resolver,
   required |-> required, register_as |-> register_as]

EmptyTree == ResolverCallArgs(IMMEDIATE, <<>>, <<>>, Resolver("invalid", None, None), None, None)

HasHint(hints, name) == \E k \in 1..Len(hints) : hints[k].name = name /\ hints[k].hint # None

HintOf(hints, name) == hints[CHOOSE k \in 1..Len(hints) : hints[k].name = name].hint

RECURSIVE _build_dependency_tree(_, _, _, _, _, _)
RECURSIVE BuildParams(_, _, _, _, _, _, _, _, _)

\* The end of one turn of the loop: the node planned for parameter k joins
\* args or kwargs according to the kind of the parameter.
AddParam(s, i, context, metadata, k, skip, args, kwargs, depth, resolver_args) ==
  IF resolver_args.err # NoError
  THEN [err |-> resolver_args.err, args |-> args, kwargs |-> kwargs]
  ELSE IF metadata.signature[k].kind = "pos"
  THEN BuildParams(s, i, context, metadata, k + 1, skip,
                   Append(args, resolver_args.tree), kwargs, depth)
  ELSE BuildParams(s, i, context, metadata, k + 1, skip,
                   args, Append(kwargs, resolver_args.tree), depth)

\* One turn of the loop once the metadata of the hint is looked up: the
\* subtree of the hint is planned with the same context.
PlanParam(s, i, context, metadata, k, skip, args, kwargs, depth, hint, hint_metadata) ==
  IF hint_metadata.err # NoError
  THEN [err |-> hint_metadata.err, args |-> args, kwargs |-> kwargs]
  ELSE AddParam(s, i, context, metadata, k, skip, args, kwargs, depth,
                _build_dependency_tree(s, i, context, hint_metadata.md, hint, depth + 1))

\* The loop over the parameters of metadata.signature, from parameter k on.
BuildParams(s, i, context, metadata, k, skip, args, kwargs, depth) ==
  IF k > Len(metadata.signature)
  THEN [err |-> NoError, args |-> args, kwargs |-> kwargs]
  ELSE IF skip > 0
  THEN BuildParams(s, i, context, metadata, k + 1, skip - 1, args, kwargs, depth)
  ELSE IF ~HasHint(metadata.hints, metadata.signature[k].name)
  THEN [err |-> "MissingTypeHint", args |-> args, kwargs |-> kwargs]
  ELSE LET hint == get_signature_hints(HintOf(metadata.hints, metadata.signature[k].name),
                                        context.origin)
       IN PlanParam(s, i, context, metadata, k, skip, args, kwargs, depth,
                    hint, _get_service_metadata(s, i, hint))

\* A node that registers what it resolves under the interface.
MakeCallArgs_by_interface(metadata, required, built) ==
  IF built.err # NoError
  THEN [err |-> built.err, tree |-> EmptyTree]
  ELSE [err |-> NoError,
        tree |-> ResolverCallArgs(metadata.scope, built.args, built.kwargs,
                                  metadata.resolver, required,
                                  IF metadata.typed THEN metadata.interface
                                  ELSE None)]

\* The return of _build_dependency_tree: the node built from what the loop
\* collected.
MakeCallArgs(metadata, required, built) ==
  IF built.err # NoError
  THEN [err |-> built.err, tree |-> EmptyTree]
  ELSE [err |-> NoError,
        tree |-> ResolverCallArgs(metadata.scope, built.args, built.kwargs,
                                  metadata.resolver, required,
                                  IF metadata.typed THEN metadata.implementation
                                  ELSE None)]

\* depth counts the nested calls of _build_dependency_tree; the interpreter
\* raises RecursionError when the nesting exceeds its recursion limit.
_build_dependency_tree(s, i, context, metadata, required, depth) ==
  IF depth > RecursionLimit
  THEN [err |-> "RecursionError", tree |-> EmptyTree]
  ELSE MakeCallArgs(metadata, required,
                    BuildParams(s, i, context, metadata, 1,
                                IF context.has_args THEN Len(context.positional_args) ELSE 0,
                                <<>>, <<>>, depth))

(***************************************************************************)
(* Objects and pending resources.                                          *)
(***************************************************************************)
Object(cls, args, kwargs, awaitable) ==
  [cls |-> cls, args |-> args, kwargs |-> kwargs, awaitable |-> awaitable,
   hooklog |-> <<>>, entered |-> 0, exited |-> 0]

\* A started generator: state is "running" while its body runs up to the
\* yield, "suspended" at the yield, "done" once finished or failed; fin
\* counts the runs of the code after the yield.
Resource(owner, async, resolver) ==
  [owner |-> owner, async |-> async, resolver |-> resolver, state |-> "running",
   obj |-> 0, fin |-> 0]

Result(s, val, err) == [s |-> s, val |-> val, err |-> err]

NewObject(s, obj, ran) ==
  [s EXCEPT !.objs = Append(@, obj), !.calls = Append(@, ran)]

Ran(s, name) == [s EXCEPT !.calls = Append(@, name)]

\* inspect.isgenerator branch of _resolve_service: the generator is kept in
\* the injector's list before it is advanced.
OpenGenerator(s, i, async, resolver) ==
  LET r == Len(s.resources) + 1 IN
  IF async
  THEN [s EXCEPT !.resources = Append(@, Resource(i, TRUE, resolver)),
                 !.agens[i] = Append(@, r)]
  ELSE [s EXCEPT !.resources = Append(@, Resource(i, FALSE, resolver)),
                 !.gens[i] = Append(@, r)]

\* The outcome of advancing generator r to its yield.
Yielded(res, r) ==
  IF res.err = NoError
  THEN Result([res.s EXCEPT !.resources[r].state = "suspended", !.resources[r].obj = res.val],
              res.val, NoError)
  ELSE Result([res.s EXCEPT !.resources[r].state = "done"], 0, res.err)

(***************************************************************************)
(* DefaultResolverFactory.get_post_inits (soupape/resolvers/default.py):   *)
(* the hooks of the bases first, then the hooks of the class.              *)
(***************************************************************************)
RECURSIVE get_post_inits(_)
RECURSIVE BasesPostInits(_, _)
BasesPostInits(bases, k) ==
  IF k > Len(bases) THEN <<>>
  ELSE get_post_inits(bases[k]) \o BasesPostInits(bases, k + 1)

\* A collection that yields the hooks of the class before those of its bases.
get_post_inits_own_first(twrap) ==
  Classes[twrap].hooks \o BasesPostInits(Classes[twrap].bases, 1)

get_post_inits(twrap) ==
  BasesPostInits(Classes[twrap].bases, 1) \o Classes[twrap].hooks

(***************************************************************************)
(* Raw-type and wrapped-type resolvers (soupape/resolvers/raw.py): the     *)
(* value is the token of the generic parameter of the required type.       *)
(***************************************************************************)
TypeTokens ==
  ("type[Engine]" :> (0 - 101)) @@ ("TWrap[Engine]" :> (0 - 201))
    @@ ("type[Any]" :> (0 - 100)) @@ ("type[int]" :> (0 - 102)) @@ ("type[str]" :> (0 - 103))

(***************************************************************************)
(* _set_instance (soupape/injector/base.py).                               *)
(***************************************************************************)
\* self._instance_pool.set_instance(...): the write is also noted in the log
\* of the operation, as (frame, key, instance).
SetInPool(s, i, twrap, instance, root) ==
  [s EXCEPT !.frames = PoolSetInstance(parent, s.frames, i, twrap, instance, root),
            !.writes = Append(@, <<IF root THEN RootOf(parent, i) ELSE i, twrap, instance>>)]

\* A registration of the instance whatever the scope of the node, in the
\* frame of the injector.
_set_instance_any_scope(s, i, scope, twrap, instance) ==
  Result(SetInPool(s, i, twrap, instance, FALSE), instance, NoError)

_set_instance(s, i, scope, twrap, instance) ==
  IF scope \in {IMMEDIATE, TRANSIENT} THEN Result(s, instance, NoError)
  ELSE IF scope = SINGLETON
  THEN Result(SetInPool(s, i, twrap, instance, TRUE), instance, NoError)
  ELSE IF is_root_injector(i)
  THEN Result(s, 0, "ScopedServiceNotAvailable")
  ELSE Result(SetInPool(s, i, twrap, instance, FALSE), instance, NoError)

RECURSIVE _resolve_service(_, _, _, _, _)
RECURSIVE ResolveChildren(_, _, _, _, _, _, _, _)
RECURSIVE RunPostInits(_, _, _, _, _, _, _)
RECURSIVE call(_, _, _, _, _, _)

\* resolved_args.append(resolved_arg) / resolved_kwargs[name] = resolved_kwarg:
\* the value of child k joins the values and the loop goes on; an exception
\* of the child leaves the loop.
ChildResolved(i, context, resolver_args, nodes, k, vals, depth, resolved_arg) ==
  IF resolved_arg.err # NoError
  THEN [s |-> resolved_arg.s, vals |-> vals, err |-> resolved_arg.err]
  ELSE ResolveChildren(resolved_arg.s, i, context, resolver_args, nodes, k + 1,
                       Append(vals, resolved_arg.val), depth)

\* The two loops of _resolve_service over the child nodes: each child is
\* resolved in its own copy of the context, one after the other.
ResolveChildren(s, i, context, resolver_args, nodes, k, vals, depth) ==
  IF k > Len(nodes) THEN [s |-> s, vals |-> vals, err |-> NoError]
  ELSE ChildResolved(i, context, resolver_args, nodes, k, vals, depth,
                     _resolve_service(s, i,
                       ContextCopy(context, resolver_args.scope, nodes[k].required),
                       nodes[k], depth + 1))

\* What the default resolver does with the result of a hook.
HookReturned(i, context, instance, post_inits, k, depth, result) ==
  IF result.err # NoError THEN Result(result.s, 0, result.err)
  ELSE RunPostInits(result.s, i, context, instance, post_inits, k + 1, depth)

\* The loop over the post-init hooks of _SyncServiceDefaultResolver.__call__
\* and _AsyncServiceDefaultResolver.__call__.
RunPostInits(s, i, context, instance, post_inits, k, depth) ==
  IF k > Len(post_inits) THEN Result(s, instance, NoError)
  ELSE HookReturned(i, context, instance, post_inits, k, depth,
                    call(s, i, post_inits[k], <<instance>>, context.origin, depth + 1))

\* The end of the default resolver, after the hooks: the instance is entered
\* when it is a context manager the resolver of this injector kind looks for.
EnterInstance(impl, instance, hooked) ==
  IF hooked.err # NoError THEN hooked
  ELSE IF (IF is_async THEN Classes[impl].cm \in {"async", "sync"}
           ELSE Classes[impl].cm = "sync")
  THEN Result([hooked.s EXCEPT !.objs[instance].entered = @ + 1], instance, NoError)
  ELSE hooked

\* A default resolver that puts the instance in the root frame as soon as it
\* is constructed, before its hooks run.
DefaultResolverBody_registered_first(s, i, context, resolver, args, kwargs, depth) ==
  IF Len(args) + Len(kwargs) # Len(Classes[resolver.b].params)
  THEN Result(s, 0, "TypeError")
  ELSE EnterInstance(resolver.b, Len(s.objs) + 1,
         RunPostInits(SetInPool(NewObject(s, Object(resolver.b, args, kwargs, FALSE),
                                          resolver.b),
                                i, resolver.b, Len(s.objs) + 1, TRUE),
                      i, context, Len(s.objs) + 1, get_post_inits(resolver.b), 1, depth))

\* The body of the default resolver up to its yield: instantiate, run the
\* hooks, enter the instance.
DefaultResolverBody(s, i, context, resolver, args, kwargs, depth) ==
  LET impl == resolver.b
      instance == Len(s.objs) + 1
  IN IF Len(args) + Len(kwargs) # Len(Classes[impl].params)
     THEN Result(s, 0, "TypeError")
     ELSE EnterInstance(impl, instance,
            RunPostInits(NewObject(s, Object(impl, args, kwargs, FALSE), impl),
                         i, context, instance, get_post_inits(impl), 1, depth))

\* What running the body of function f does: a hook (no return type) marks
\* the instance it is given, a resolver function builds its result.
FunctionBody(s, f, args, kwargs, awaitable) ==
  IF Funcs[f].returns = None
  THEN IF Len(args) > 0 /\ args[1] > 0
       THEN Result(Ran([s EXCEPT !.objs[args[1]].hooklog = Append(@, f)], f), 0, NoError)
       ELSE Result(Ran(s, f), 0, NoError)
  ELSE Result(NewObject(s, Object(Funcs[f].returns, args, kwargs, awaitable), f),
              Len(s.objs) + 1, NoError)

\* A call of function f by the synchronous _resolve_service, followed by
\* its isgenerator / isasyncgen / iscoroutine branches.  The error carries
\* the async generator or coroutine of f, which never ran.
SyncInvokeFunction(s, i, f, args, kwargs) ==
  LET kind == Funcs[f].result IN
  IF Len(args) + Len(kwargs) # Len(Funcs[f].params) THEN Result(s, 0, "TypeError")
  ELSE IF kind = "raise" THEN Result(Ran(s, f), 0, "UserError")
  ELSE IF kind = "value" THEN FunctionBody(s, f, args, kwargs, FALSE)
  ELSE IF kind = "awaitable" THEN FunctionBody(s, f, args, kwargs, TRUE)
  ELSE IF kind = "generator"
  THEN LET opened == OpenGenerator(s, i, FALSE, Resolver("func", f, None))
       IN Yielded(FunctionBody(opened, f, args, kwargs, FALSE), Len(opened.resources))
  ELSE Result([s EXCEPT !.carried = f], 0, "AsyncInSyncInjector")

\* The same for the asynchronous _resolve_service.
AsyncInvokeFunction(s, i, f, args, kwargs) ==
  LET kind == Funcs[f].result IN
  IF Len(args) + Len(kwargs) # Len(Funcs[f].params) THEN Result(s, 0, "TypeError")
  ELSE IF kind = "raise" THEN Result(Ran(s, f), 0, "UserError")
  ELSE IF kind \in {"value", "coroutine"} THEN FunctionBody(s, f, args, kwargs, FALSE)
  ELSE IF kind = "awaitable" THEN FunctionBody(s, f, args, kwargs, TRUE)
  ELSE LET opened == OpenGenerator(s, i, kind = "asyncgen", Resolver("func", f, None))
       IN Yielded(FunctionBody(opened, f, args, kwargs, FALSE), Len(opened.resources))

\* The resolver that SyncInjector.call wraps around the function: the
\* wrapper raises on a coroutine and returns anything else unchanged.
SyncInvokeCall(s, i, f, args, kwargs) ==
  SyncInvokeFunction(s, i, f, args, kwargs)

\* The resolver that AsyncInjector.call wraps around the function is a
\* coroutine function: _resolve_service awaits it, and a generator that the
\* function returns comes out of the await as a plain value, not advanced.
AsyncInvokeCall(s, i, f, args, kwargs) ==
  IF Funcs[f].result \in {"generator", "asyncgen"}
     /\ Len(args) + Len(kwargs) = Len(Funcs[f].params)
  THEN Result([s EXCEPT !.objs = Append(@, Object("generator", args, kwargs, FALSE))],
              Len(s.objs) + 1, NoError)
  ELSE AsyncInvokeFunction(s, i, f, args, kwargs)

\* _get_resolver_from_call_args, the call of the resolver and the branches
\* of _resolve_service on what the call returned.
InvokeResolver(s, i, context, resolver_args, args, kwargs, depth) ==
  LET resolver == resolver_args.resolver IN
  IF resolver.kind = "instantiated"
  THEN IF ~_has_instance(s, i, resolver.a) THEN Result(s, 0, "ServiceNotFound")
       ELSE Result(s, _get_instance(s, i, resolver.a), NoError)
  ELSE IF resolver.kind \in {"raw", "wrapped"}
  THEN IF context.required = None THEN Result(s, 0, "ValueError")
       ELSE Result(s, TypeTokens[context.required], NoError)
  ELSE IF resolver.kind = "default"
  THEN LET opened == OpenGenerator(s, i, is_async, resolver)
       IN Yielded(DefaultResolverBody(opened, i, context, resolver, args, kwargs, depth),
                  Len(opened.resources))
  ELSE IF resolver.kind = "func"
  THEN IF is_async THEN AsyncInvokeFunction(s, i, resolver.a, args, kwargs)
       ELSE SyncInvokeFunction(s, i, resolver.a, args, kwargs)
  ELSE IF is_async THEN AsyncInvokeCall(s, i, resolver.a, args, kwargs)
       ELSE SyncInvokeCall(s, i, resolver.a, args, kwargs)

\* An end of _resolve_service that treats whatever the resolver returned as
\* the default resolver treats what it constructed: a context manager is
\* entered before it is registered.
RegisterResolved_entering(i, resolver_args, resolved) ==
  IF resolved.err # NoError THEN resolved
  ELSE IF resolver_args.register_as = None THEN resolved
  ELSE IF resolved.val \in 1..Len(resolved.s.objs)
          /\ resolver_args.resolver.kind = "func"
          /\ resolved.s.objs[resolved.val].cls \in DOMAIN Classes
          /\ Classes[resolved.s.objs[resolved.val].cls].cm = "sync"
  THEN _set_instance([resolved.s EXCEPT !.objs[resolved.val].entered = @ + 1], i,
                     resolver_args.scope, resolver_args.register_as, resolved.val)
  ELSE _set_instance(resolved.s, i, resolver_args.scope, resolver_args.register_as,
                     resolved.val)

\* The end of _resolve_service: what the resolver returned is registered
\* under register_as, when the node has one, and returned.
RegisterResolved(i, resolver_args, resolved) ==
  IF resolved.err # NoError THEN resolved
  ELSE IF resolver_args.register_as # None
  THEN _set_instance(resolved.s, i, resolver_args.scope, resolver_args.register_as,
                     resolved.val)
  ELSE resolved

\* _resolve_service once both loops are over: the resolver is obtained and
\* called with the resolved arguments.
CallResolver(i, context, resolver_args, depth, resolved_args, resolved_kwargs) ==
  IF resolved_kwargs.err # NoError THEN Result(resolved_kwargs.s, 0, resolved_kwargs.err)
  ELSE RegisterResolved(i, resolver_args,
         InvokeResolver(resolved_kwargs.s, i, context, resolver_args,
                        resolved_args.vals, resolved_kwargs.vals, depth))

\* _resolve_service after its first loop: the loop over the keyword nodes.
ResolveKwargs(i, context, resolver_args, depth, resolved_args) ==
  IF resolved_args.err # NoError THEN Result(resolved_args.s, 0, resolved_args.err)
  ELSE CallResolver(i, context, resolver_args, depth, resolved_args,
         ResolveChildren(resolved_args.s, i, context, resolver_args, resolver_args.kwargs,
                         1, <<>>, depth))

\* resolved_args starts with the positional arguments of the context.
_resolve_service(s, i, context, resolver_args, depth) ==
  IF depth > RecursionLimit THEN Result(s, 0, "RecursionError")
  ELSE ResolveKwargs(i, context, resolver_args, depth,
         ResolveChildren(s, i, context, resolver_args, resolver_args.args,
                         1, context.positional_args, depth))

\* A resolution that puts the pool back as it found it when it fails.
ResolvePlanned_rollback(s, i, context, planned, depth) ==
  IF planned.err # NoError THEN Result(s, 0, planned.err)
  ELSE IF _resolve_service(s, i, context, planned.tree, depth).err # NoError
  THEN Result([_resolve_service(s, i, context, planned.tree, depth).s EXCEPT !.frames = s.frames],
              0, _resolve_service(s, i, context, planned.tree, depth).err)
  ELSE _resolve_service(s, i, context, planned.tree, depth)

\* The last line of _require and of call: the planned tree is resolved.
ResolvePlanned(s, i, context, planned, depth) ==
  IF planned.err # NoError THEN Result(s, 0, planned.err)
  ELSE _resolve_service(s, i, context, planned.tree, depth)

\* A require that resolves each parameter as soon as it is planned: the
\* parameters planned before the one that fails are already built.
RECURSIVE ResolveWhilePlanning(_, _, _, _)
ResolveWhilePlanning(s, i, signature, k) ==
  IF k > Len(signature) \/ signature[k].hint = None THEN s
  ELSE IF _get_service_metadata(s, i, signature[k].hint).err # NoError THEN s
  ELSE ResolveWhilePlanning(
         ResolvePlanned(s, i,
           InjectionContext(i, signature[k].hint, IMMEDIATE, signature[k].hint, <<>>),
           _build_dependency_tree(s, i,
             InjectionContext(i, signature[k].hint, IMMEDIATE, signature[k].hint, <<>>),
             _get_service_metadata(s, i, signature[k].hint).md, signature[k].hint, 1), 1).s,
         i, signature, k + 1)

RequireWith_while_planning(s, i, interface, metadata) ==
  IF metadata.err # NoError THEN Result(s, 0, metadata.err)
  ELSE ResolvePlanned(ResolveWhilePlanning(s, i, metadata.md.signature, 1), i,
                      InjectionContext(i, interface, metadata.md.scope, interface, <<>>),
                      _build_dependency_tree(s, i,
                        InjectionContext(i, interface, metadata.md.scope, interface, <<>>),
                        metadata.md, interface, 1), 1)

\* _require once the metadata of the interface is looked up.
RequireWith(s, i, interface, metadata) ==
  IF metadata.err # NoError THEN Result(s, 0, metadata.err)
  ELSE LET context == InjectionContext(i, interface, metadata.md.scope, interface, <<>>)
       IN ResolvePlanned(s, i, context,
                         _build_dependency_tree(s, i, context, metadata.md, interface, 1), 1)

\* SyncInjector._require and AsyncInjector._require.
_require(s, i, interface) ==
  RequireWith(s, i, interface, _get_service_metadata(s, i, interface))

\* A call that plans the function as a SINGLETON registration of its return
\* type, so that its result is kept in the pool.
call_registering(s, i, f, positional_args, origin, depth) ==
  ResolvePlanned(s, i, InjectionContext(i, origin, IMMEDIATE, None, positional_args),
    _build_dependency_tree(s, i, InjectionContext(i, origin, IMMEDIATE, None, positional_args),
      TypeResolverMetadata(SINGLETON, Funcs[f].returns, Funcs[f].returns,
                           Resolver("call", f, None), Funcs[f].params, Funcs[f].params),
      None, depth),
    depth)

\* SyncInjector.call and AsyncInjector.call.
call(s, i, f, positional_args, origin, depth) ==
  LET context == InjectionContext(i, origin, IMMEDIATE, None, positional_args)
  IN ResolvePlanned(s, i, context,
       _build_dependency_tree(s, i, context,
         ResolverMetadata(IMMEDIATE, Funcs[f].params, Funcs[f].params,
                          Resolver("call", f, None)),
         None, depth),
       depth)

(***************************************************************************)
(* BaseInjector.__exit__ and AsyncInjector.__aexit__: each generator of    *)
(* the list is advanced once, in list order; StopIteration is swallowed,   *)
(* any other exception leaves the loop.                                    *)
(***************************************************************************)
\* next(gen) / anext(agen) on resource r.
ResumeGenerator(s, r) ==
  LET res == s.resources[r] IN
  IF res.state # "suspended" THEN Result(s, 0, NoError)
  ELSE LET finished == [s EXCEPT !.resources[r].state = "done", !.resources[r].fin = @ + 1]
       IN IF res.resolver.kind = "default"
          THEN IF s.objs[res.obj].entered > s.objs[res.obj].exited
               THEN Result([finished EXCEPT !.objs[res.obj].exited = @ + 1], 0, NoError)
               ELSE Result(finished, 0, NoError)
          ELSE IF Funcs[res.resolver.a].teardown = "raise"
          THEN Result(finished, 0, "TeardownError")
          ELSE Result(finished, 0, NoError)

RECURSIVE CloseGenerators(_, _, _)
CloseGenerators(s, gens, k) ==
  IF k > Len(gens) THEN Result(s, 0, NoError)
  ELSE LET r == ResumeGenerator([s EXCEPT !.resumed = Append(@, gens[k])], gens[k]) IN
    IF r.err # NoError THEN r
    ELSE CloseGenerators(r.s, gens, k + 1)

__exit__(s, i) == CloseGenerators(s, s.gens[i], 1)

__aexit__(s, i) ==
  LET first == CloseGenerators(s, s.gens[i], 1) IN
  IF first.err # NoError THEN first
  ELSE CloseGenerators(first.s, s.agens[i], 1)

(***************************************************************************)
(* Construction of an injector: BaseInjector.__init__,                     *)
(* _register_common_resolvers and _set_injector_in_services.               *)
(***************************************************************************)
CommonResolver(kind, interface) ==
  TypeResolverMetadata(TRANSIENT, interface, "Any", Resolver(kind, None, None), <<>>, <<>>)

_register_common_resolvers(coll) ==
  LET raw == IF is_registered(coll, "type[Any]") THEN coll
             ELSE _add_resolver(coll, CommonResolver("raw", "type[Any]")).coll
  IN IF is_registered(raw, "TWrap[Any]") THEN raw
     ELSE _add_resolver(raw, CommonResolver("wrapped", "TWrap[Any]")).coll

\* A copy that is the collection itself.
copy_shared(h, c) == [heap |-> h, ref |-> c]

\* ServiceCollection.copy: a new collection with copies of the bag of
\* registered interfaces and of the map of resolvers.
copy(h, c) == [heap |-> Append(h, h[c]), ref |-> Len(h) + 1]

\* BaseInjector.__init__: self._services is a copy of the collection given,
\* and the common resolvers are added to it.
BaseInjector__init__(h, c) ==
  [heap |-> [copy(h, c).heap EXCEPT ![copy(h, c).ref] = _register_common_resolvers(@)],
   ref |-> copy(h, c).ref]

\* An injector that registers the root of its pool instead of itself.
_set_injector_in_services_root(async, i) ==
  ((IF async THEN "AsyncInjector" ELSE "SyncInjector") :> (0 - 1)) @@ ("Injector" :> (0 - 1))

_set_injector_in_services(async, i) ==
  ((IF async THEN "AsyncInjector" ELSE "SyncInjector") :> (0 - i)) @@ ("Injector" :> (0 - i))

(***************************************************************************)
(* The registrations a client makes before it builds the root injector.    *)
(***************************************************************************)
Scopes == {SINGLETON, SCOPED, TRANSIENT}

SharedImplementation(sb, si) == <<Reg(sb, <<"Base", "Impl">>), Reg(si, <<"Impl">>)>>

Scripts ==
  {SharedImplementation(sb, si) : sb \in Scopes, si \in Scopes}
  \cup {<<Reg(SINGLETON, <<"Engine">>), Reg(SINGLETON, <<"PartA">>), Reg(SINGLETON, <<"Car">>)>>,
        <<Reg(SCOPED, <<"Engine">>), Reg(SINGLETON, <<"PartA">>)>>,
        <<Reg(SINGLETON, <<"CycA">>), Reg(SINGLETON, <<"CycB">>)>>,
        <<Reg(SINGLETON, <<"Cyc3A">>), Reg(SINGLETON, <<"Cyc3B">>), Reg(SINGLETON, <<"Cyc3C">>)>>,
        <<Reg(SINGLETON, <<"Selfish">>)>>,
        <<Reg(SINGLETON, <<"make_res_a">>), Reg(SINGLETON, <<"make_res_b">>),
          Reg(SINGLETON, <<"make_res_c">>)>>,
        <<Reg(SINGLETON, <<"make_coro">>), Reg(SINGLETON, <<"make_agen">>),
          Reg(SINGLETON, <<"make_future">>)>>,
        <<Reg(SINGLETON, <<"Hooked">>), Reg(SINGLETON, <<"HookedFut">>),
          Reg(SINGLETON, <<"Managed">>)>>}

\* The functions a client hands to call().
CallFuncs == {"make_coro", "make_future", "drive"}

\* A client requires the descriptors it registered and the specializations
\* of the generic descriptors it registered.
Specializations == {"Service[int]", "Service[str]"}

Requirable ==
  collection.registered \cup {d \in Specializations : contains_matching(collection, d)}

\* A client calls the functions that its registrations are about.
Callable(f) ==
  \/ \E d \in collection.registered : collection.resolvers[d].resolver.a = f
  \/ /\ Funcs[f].params # <<>>
     /\ \A k \in 1..Len(Funcs[f].params) : Funcs[f].params[k].hint \in collection.registered

(***************************************************************************)
(* State machine.                                                          *)
(***************************************************************************)
NoOp == [op |-> "init", inj |-> 0, arg |-> None, val |-> 0, err |-> NoError,
         calls |-> <<>>, resumed |-> <<>>, carried |-> None, writes |-> <<>>,
         md |-> ServiceNotFoundError(None)]

\* No second injector runs next to the one of the variables.
NoTwin == [pending |-> <<>>]

InitRun(scripts, modes) ==
  /\ is_async \in modes
  /\ \E script \in scripts :
       heap = BaseInjector__init__(<<BuildCollection(script, Len(script))>>, 1).heap
  /\ parent = <<0>>
  /\ _services = <<BaseInjector__init__(<<EmptyCollection>>, 1).ref>>
  /\ frames = <<_set_injector_in_services(is_async, 1)>>
  /\ objs = <<>>
  /\ resources = <<>>
  /\ generators_to_close = << <<>> >>
  /\ async_generators_to_close = << <<>> >>
  /\ exited = <<FALSE>>
  /\ last = NoOp
  /\ returned = {}
  /\ steps = 0
  /\ tasks = <<>>

InitWith(scripts, modes) == InitRun(scripts, modes) /\ twin = NoTwin

Init == InitWith(Scripts, BOOLEAN)

Injectors == 1..Len(parent)

\* The state an operation starts from.
Start ==
  [frames |-> frames, objs |-> objs, resources |-> resources,
   gens |-> generators_to_close, agens |-> async_generators_to_close,
   calls |-> <<>>, resumed |-> <<>>, carried |-> None, writes |-> <<>>]

\* The variables an operation may change, from the state it ends in.
Commit(op, i, arg, r) ==
  /\ steps < MaxOps
  /\ steps' = steps + 1
  /\ frames' = r.s.frames
  /\ objs' = r.s.objs
  /\ resources' = r.s.resources
  /\ generators_to_close' = r.s.gens
  /\ async_generators_to_close' = r.s.agens
  /\ last' = [op |-> op, inj |-> i, arg |-> arg, val |-> r.val, err |-> r.err,
              calls |-> r.s.calls, resumed |-> r.s.resumed, carried |-> r.s.carried,
              writes |-> r.s.writes, md |-> NoOp.md]

\* injector.require(interface)
Require(i, interface) ==
  LET r == _require(Start, i, interface) IN
  /\ Commit("require", i, interface, r)
  /\ returned' = IF r.err = NoError THEN returned \cup {<<i, interface, r.val>>} ELSE returned
  /\ UNCHANGED <<heap, is_async, parent, _services, exited, tasks, twin>>

\* injector.call(f)
Call(i, f) ==
  LET r == call(Start, i, f, <<>>, None, 1) IN
  /\ Commit("call", i, f, r)
  /\ UNCHANGED <<heap, is_async, parent, _services, exited, returned, tasks, twin>>

\* injector.get_scoped_injector()
GetScopedInjector(i) ==
  /\ Len(parent) < 1 + MaxScoped
  /\ steps < MaxOps
  /\ steps' = steps + 1
  /\ parent' = Append(parent, i)
  /\ heap' = BaseInjector__init__(heap, _services[i]).heap
  /\ _services' = Append(_services, BaseInjector__init__(heap, _services[i]).ref)
  /\ frames' = Append(frames, _set_injector_in_services(is_async, Len(parent) + 1))
  /\ generators_to_close' = Append(generators_to_close, <<>>)
  /\ async_generators_to_close' = Append(async_generators_to_close, <<>>)
  /\ exited' = Append(exited, FALSE)
  /\ last' = [NoOp EXCEPT !.op = "get_scoped_injector", !.inj = i,
                          !.val = 0 - (Len(parent) + 1)]
  /\ UNCHANGED <<is_async, objs, resources, returned, tasks, twin>>

\* The end of the injector's with / async with block.
Exit(i) ==
  LET r == IF is_async THEN __aexit__(Start, i) ELSE __exit__(Start, i) IN
  /\ Commit("exit", i, None, r)
  /\ exited' = [exited EXCEPT ![i] = TRUE]
  /\ UNCHANGED <<heap, is_async, parent, _services, returned, tasks, twin>>

Next ==
  \/ \E i \in Injectors : \E interface \in Requirable : Require(i, interface)
  \/ \E i \in Injectors : \E f \in CallFuncs : Callable(f) /\ Call(i, f)
  \/ \E i \in Injectors : GetScopedInjector(i)
  \/ \E i \in Injectors : Exit(i)

Spec == Init /\ [][Next]_vars

(***************************************************************************)
(* The same injectors over the registrations of one family of services.    *)
(***************************************************************************)
\* Classes with post-init hooks along an inheritance chain and a diamond.
HookScripts ==
  {<<Reg(SINGLETON, <<"HLeaf">>), Reg(SINGLETON, <<"Engine">>)>>}

SpecHooks == InitWith(HookScripts, BOOLEAN) /\ [][Next]_vars

\* A composite whose second dependency fails after the first was resolved.
FailingScripts ==
  {<<Reg(se, <<"Engine">>), Reg(SINGLETON, <<"make_broken">>), Reg(TRANSIENT, <<"Duo">>)>>
   : se \in {SINGLETON, SCOPED}}

SpecFailing == InitWith(FailingScripts, BOOLEAN) /\ [][Next]_vars

\* Services that declare the injector itself as a dependency.
InjectorScripts ==
  {<<Reg(TRANSIENT, <<"UsesInjector">>), Reg(TRANSIENT, <<"UsesSync">>),
     Reg(TRANSIENT, <<"UsesAsync">>), Reg(SINGLETON, <<"Engine">>)>>}

SpecInjector == InitWith(InjectorScripts, BOOLEAN) /\ [][Next]_vars

\* A client that goes on registering after the injectors exist: on the
\* collection it built (j = 0) or on the collection injector j holds.
FrozenScripts == {<<Reg(SINGLETON, <<"Engine">>)>>}

LateArgs == {<<"Engine">>, <<"PartA">>}

CollectionOf(j) == IF j = 0 THEN 1 ELSE _services[j]

\* services.add_singleton(*args) and the like, after construction.
AddService(j, scope, args) ==
  /\ steps < MaxOps
  /\ steps' = steps + 1
  /\ heap' = [heap EXCEPT ![CollectionOf(j)] = add_service(@, scope, args).coll]
  /\ last' = [NoOp EXCEPT !.op = "add_service", !.inj = j, !.arg = args[1],
                          !.err = add_service(heap[CollectionOf(j)], scope, args).err,
                          !.md = _unpack_registration_args(scope, args)]
  /\ UNCHANGED <<is_async, parent, _services, frames, objs, resources, generators_to_close,
                 async_generators_to_close, exited, returned, tasks, twin>>

NextFrozen ==
  \/ Next
  \/ \E j \in {0} \cup Injectors : \E args \in LateArgs : AddService(j, SINGLETON, args)

SpecFrozen == InitWith(FrozenScripts, BOOLEAN) /\ [][NextFrozen]_vars

\* An interface bound to an implementation that is also registered as
\* itself, both as singletons.
SharedScripts ==
  {SharedImplementation(SINGLETON, SINGLETON) \o <<Reg(SINGLETON, <<"Engine">>)>>}

SpecShared == InitWith(SharedScripts, BOOLEAN) /\ [][Next]_vars

\* Context-manager services next to a generator resolver whose code after
\* the yield raises and to a composite whose second dependency fails.
TeardownScripts ==
  {<<Reg(SINGLETON, <<"Managed">>), Reg(SINGLETON, <<"ManagedAsync">>),
     Reg(SINGLETON, <<"make_res_c">>), Reg(SINGLETON, <<"make_broken">>),
     Reg(TRANSIENT, <<"Duo">>), Reg(SINGLETON, <<"Engine">>)>>}

SpecTeardown == InitWith(TeardownScripts, BOOLEAN) /\ [][Next]_vars

\* Registrations that leave out the implementation of an interface, which a
\* constructor asks for next to a type that only the generic resolver of
\* types matches; the client also requires descriptors it never registered.
NotFoundScripts ==
  {<<Reg(SINGLETON, <<"Base", "Impl">>), Reg(SINGLETON, <<"NeedsImpl">>),
     Reg(SINGLETON, <<"Engine">>)>>}

Strays == {"Impl", "Service[str]"}

NextStray ==
  \/ Next
  \/ \E i \in Injectors : \E interface \in Strays : Require(i, interface)

SpecNotFound == InitWith(NotFoundScripts, BOOLEAN) /\ [][NextStray]_vars

\* One registration of a generic class for every argument of its parameter.
GenericScripts ==
  {<<Reg(SINGLETON, <<"Service[Any]">>), Reg(SINGLETON, <<"Engine">>)>>}

SpecGeneric == InitWith(GenericScripts, BOOLEAN) /\ [][Next]_vars

(***************************************************************************)
(* A client that builds a collection and questions it, with no injector.   *)
(***************************************************************************)
MaxRegs == 3

RegistryScopes == {SINGLETON, TRANSIENT}

RegistryArgs ==
  {<<"Base", "Impl">>, <<"Base">>, <<"make_res_a", "Base">>, <<"Base", "Engine">>,
   <<"Impl">>, <<"make_res_a">>, <<"Impl", "make_res_a">>,
   <<"Table[int, str]">>, <<"Table[int, Any]">>, <<"Table[Any, Any]">>}

Descriptors ==
  {"Base", "Impl", "ResA", "Engine",
   "Table[int, str]", "Table[str, str]", "Table[int, Any]", "Table[Any, Any]"}

InitRegistry ==
  /\ is_async = FALSE
  /\ heap = <<EmptyCollection>>
  /\ parent = <<>>
  /\ _services = <<>>
  /\ frames = <<>>
  /\ objs = <<>>
  /\ resources = <<>>
  /\ generators_to_close = <<>>
  /\ async_generators_to_close = <<>>
  /\ exited = <<>>
  /\ last = NoOp
  /\ returned = {}
  /\ steps = 0
  /\ tasks = <<>>
  /\ twin = NoTwin

\* services.get_metadata(d)
GetMetadata(d) ==
  /\ last' = [NoOp EXCEPT !.op = "get_metadata", !.arg = d,
                          !.md = get_metadata(collection, d),
                          !.err = IF get_metadata(collection, d).resolver.kind = "not_found"
                                  THEN "ServiceNotFound" ELSE NoError]
  /\ UNCHANGED <<heap, is_async, parent, _services, frames, objs, resources,
                 generators_to_close, async_generators_to_close, exited, returned, steps,
                 tasks, twin>>

\* services.is_registered(d): val is 1 for True and 0 for False.
IsRegistered(d) ==
  /\ last' = [NoOp EXCEPT !.op = "is_registered", !.arg = d,
                          !.val = IF is_registered(collection, d) THEN 1 ELSE 0]
  /\ UNCHANGED <<heap, is_async, parent, _services, frames, objs, resources,
                 generators_to_close, async_generators_to_close, exited, returned, steps,
                 tasks, twin>>

NextRegistry ==
  \/ \E scope \in RegistryScopes : \E args \in RegistryArgs :
       Cardinality(collection.registered) < MaxRegs /\ AddService(0, scope, args)
  \/ \E d \in Descriptors : GetMetadata(d)
  \/ \E d \in Descriptors : IsRegistered(d)

SpecRegistry == InitRegistry /\ [][NextRegistry]_vars

(***************************************************************************)
(* Requires in flight at the same time on an asynchronous injector         *)
(* (soupape/injector/async_injector.py).  A task is one call of            *)
(* AsyncInjector.require run by the event loop; it runs alone until the    *)
(* coroutine of a resolver function suspends, and is resumed later.  The   *)
(* stack of a task holds one frame per nested call of _resolve_service:    *)
(* the node being resolved, its context, the index k of the child the two  *)
(* loops are at and the values resolved so far.                            *)
(***************************************************************************)
MaxTasks == 2

TaskFrame(node, context) ==
  [node |-> node, context |-> context, k |-> 1, vals |-> context.positional_args,
   kwvals |-> <<>>, awaiting |-> FALSE]

Task(i, interface, stack, state, err) ==
  [inj |-> i, interface |-> interface, stack |-> stack, state |-> state, val |-> 0,
   err |-> err, events |-> <<>>,
   planned |-> IF stack = <<>> THEN None ELSE stack[1].node.resolver.kind]

Begin(t, node) == [t EXCEPT !.events = Append(@, <<"begin", node.required, Len(t.stack) + 1>>)]

End(t) ==
  [t EXCEPT !.events = Append(@, <<"end", t.stack[Len(t.stack)].node.required, Len(t.stack)>>)]

\* The coroutine of a resolver function waits on the event loop before it
\* returns: `resolved = await resolved` suspends the task.
Suspends(resolver) == resolver.kind = "func" /\ Funcs[resolver.a].result = "coroutine"

Children(node) == node.args \o node.kwargs

RECURSIVE RunTask(_, _)

\* The return of a nested _resolve_service: an exception leaves every
\* frame of the task, a value joins the values of the caller's loop, and
\* the value of the outermost frame is what require returns.
Return(t, resolved) ==
  IF resolved.err # NoError
  THEN [s |-> resolved.s,
        t |-> [t EXCEPT !.stack = <<>>, !.state = "failed", !.err = resolved.err]]
  ELSE IF Len(t.stack) = 1
  THEN [s |-> resolved.s,
        t |-> [End(t) EXCEPT !.stack = <<>>, !.state = "done", !.val = resolved.val]]
  ELSE IF t.stack[Len(t.stack) - 1].k <= Len(t.stack[Len(t.stack) - 1].node.args)
  THEN RunTask(resolved.s,
               [End(t) EXCEPT !.stack = [SubSeq(t.stack, 1, Len(t.stack) - 1)
                                           EXCEPT ![Len(t.stack) - 1].k = @ + 1,
                                                  ![Len(t.stack) - 1].vals =
                                                     Append(@, resolved.val)]])
  ELSE RunTask(resolved.s,
               [End(t) EXCEPT !.stack = [SubSeq(t.stack, 1, Len(t.stack) - 1)
                                           EXCEPT ![Len(t.stack) - 1].k = @ + 1,
                                                  ![Len(t.stack) - 1].kwvals =
                                                     Append(@, resolved.val)]])

\* A loop that starts the resolution of every child before it waits for
\* the first one.
Descend_eager(s, t, top) ==
  IF Len(t.stack) + 1 > RecursionLimit
  THEN Return(t, Result(s, 0, "RecursionError"))
  ELSE RunTask(s, [(IF top.k < Len(Children(top.node))
                    THEN Begin(Begin(t, Children(top.node)[top.k]),
                               Children(top.node)[top.k + 1])
                    ELSE Begin(t, Children(top.node)[top.k]))
                     EXCEPT !.stack = Append(@,
                       TaskFrame(Children(top.node)[top.k],
                                 ContextCopy(top.context, top.node.scope,
                                             Children(top.node)[top.k].required)))])

\* One turn of the loops of _resolve_service: the nested call for child k
\* starts, in its own copy of the context.
Descend(s, t, top) ==
  IF Len(t.stack) + 1 > RecursionLimit
  THEN Return(t, Result(s, 0, "RecursionError"))
  ELSE RunTask(s, [Begin(t, Children(top.node)[top.k])
                     EXCEPT !.stack = Append(@,
                       TaskFrame(Children(top.node)[top.k],
                                 ContextCopy(top.context, top.node.scope,
                                             Children(top.node)[top.k].required)))])

\* The task runs from where it is until it suspends or require returns.
RunTask(s, t) ==
  LET top == t.stack[Len(t.stack)] IN
  IF top.awaiting
  THEN Return(t, RegisterResolved(t.inj, top.node,
                   FunctionBody(s, top.node.resolver.a, top.vals, top.kwvals, FALSE)))
  ELSE IF top.k <= Len(Children(top.node))
  THEN Descend(s, t, top)
  ELSE IF Suspends(top.node.resolver)
          /\ Len(top.vals) + Len(top.kwvals) = Len(Funcs[top.node.resolver.a].params)
  THEN [s |-> s, t |-> [t EXCEPT !.stack[Len(t.stack)].awaiting = TRUE,
                                 !.state = "suspended"]]
  ELSE Return(t, RegisterResolved(t.inj, top.node,
                   InvokeResolver(s, t.inj, top.context, top.node, top.vals, top.kwvals,
                                  Len(t.stack))))

\* AsyncInjector._require up to the first suspension of the task.
StartTask(s, i, interface, metadata, planned) ==
  IF metadata.err # NoError
  THEN [s |-> s, t |-> Task(i, interface, <<>>, "failed", metadata.err)]
  ELSE IF planned.err # NoError
  THEN [s |-> s, t |-> Task(i, interface, <<>>, "failed", planned.err)]
  ELSE RunTask(s, [Task(i, interface,
                        <<TaskFrame(planned.tree,
                                    InjectionContext(i, interface, metadata.md.scope,
                                                     interface, <<>>))>>,
                        "running", NoError)
                     EXCEPT !.events = << <<"begin", planned.tree.required, 1>> >>])

\* A require that joins the require of the same interface already in
\* flight on the injector instead of resolving the interface itself.
PlanTask_coalesced(s, i, interface, metadata) ==
  StartTask(s, i, interface, metadata,
            IF metadata.err # NoError THEN [err |-> metadata.err, tree |-> EmptyTree]
            ELSE IF \E n \in 1..Len(tasks) : /\ tasks[n].state = "suspended"
                                             /\ tasks[n].inj = i
                                             /\ tasks[n].interface = interface
            THEN _build_dependency_tree(s, i,
                   InjectionContext(i, interface, metadata.md.scope, interface, <<>>),
                   _make_instantiated_resolver(interface, interface), interface, 1)
            ELSE _build_dependency_tree(s, i,
                   InjectionContext(i, interface, metadata.md.scope, interface, <<>>),
                   metadata.md, interface, 1))

PlanTask(s, i, interface, metadata) ==
  StartTask(s, i, interface, metadata,
            IF metadata.err # NoError THEN [err |-> metadata.err, tree |-> EmptyTree]
            ELSE _build_dependency_tree(s, i,
                   InjectionContext(i, interface, metadata.md.scope, interface, <<>>),
                   metadata.md, interface, 1))

\* What a step of a task leaves in the variables.
CommitTask(op, n, r) ==
  /\ Commit(op, r.t.inj, r.t.interface, Result(r.s, r.t.val, r.t.err))
  /\ returned' = IF r.t.state = "done"
                 THEN returned \cup {<<r.t.inj, r.t.interface, r.t.val>>} ELSE returned
  /\ tasks' = IF n > Len(tasks) THEN Append(tasks, r.t) ELSE [tasks EXCEPT ![n] = r.t]
  /\ UNCHANGED <<heap, is_async, parent, _services, exited, twin>>

\* The event loop starts a task that awaits injector.require(interface).
StartRequire(i, interface) ==
  /\ is_async
  /\ Len(tasks) < MaxTasks
  /\ CommitTask("start", Len(tasks) + 1,
                PlanTask(Start, i, interface, _get_service_metadata(Start, i, interface)))

\* The event loop resumes a suspended task.
Resume(n) ==
  /\ tasks[n].state = "suspended"
  /\ CommitTask("resume", n, RunTask(Start, [tasks[n] EXCEPT !.state = "running"]))

\* Resolver functions that are coroutine functions, alone and as the two
\* dependencies of one service.
TaskScripts ==
  {<<Reg(sc, <<"make_coro">>), Reg(TRANSIENT, <<"make_late">>), Reg(TRANSIENT, <<"Twin">>)>> :
     sc \in {SINGLETON, TRANSIENT}}

NextTasks ==
  \/ \E i \in Injectors : \E interface \in Requirable : StartRequire(i, interface)
  \/ \E n \in 1..Len(tasks) : Resume(n)
  \/ \E i \in Injectors : GetScopedInjector(i)
  \/ \E i \in Injectors : Exit(i)

SpecTasks == InitWith(TaskScripts, {TRUE}) /\ [][NextTasks]_vars

(***************************************************************************)
(* A SyncInjector and an AsyncInjector built on the same collection and    *)
(* driven by the same operations.  The variables hold the run of one of    *)
(* the two and twin holds the run of the other one; every operation is     *)
(* done by the synchronous injector first and by the asynchronous one      *)
(* next, and the two runs change places after each of the two.  Scoped     *)
(* injectors are made on both sides at once.                               *)
(***************************************************************************)
\* The operation by the injector of the variables.
Perform(op, i, arg) ==
  IF op = "require" THEN _require(Start, i, arg)
  ELSE IF op = "call" THEN call(Start, i, arg, <<>>, None, 1)
  ELSE IF is_async THEN __aexit__(Start, i)
  ELSE __exit__(Start, i)

\* The run of the variables, after the operation, goes to twin and the run
\* of twin comes to the variables.
Swap(op, i, arg, r, pending) ==
  /\ twin' = [frames |-> r.s.frames, objs |-> r.s.objs, resources |-> r.s.resources,
              gens |-> r.s.gens, agens |-> r.s.agens,
              last |-> [op |-> op, inj |-> i, arg |-> arg, val |-> r.val, err |-> r.err,
                        calls |-> r.s.calls, resumed |-> r.s.resumed,
                        carried |-> r.s.carried, writes |-> r.s.writes, md |-> NoOp.md],
              pending |-> pending]
  /\ frames' = twin.frames
  /\ objs' = twin.objs
  /\ resources' = twin.resources
  /\ generators_to_close' = twin.gens
  /\ async_generators_to_close' = twin.agens
  /\ last' = twin.last
  /\ is_async' = ~is_async

\* The operation on the synchronous injector.
DualLead(op, i, arg) ==
  /\ ~is_async
  /\ twin.pending = <<>>
  /\ steps < MaxOps
  /\ steps' = steps + 1
  /\ Swap(op, i, arg, Perform(op, i, arg), <<op, i, arg>>)
  /\ UNCHANGED <<heap, parent, _services, exited, returned, tasks>>

\* The same operation on the asynchronous injector.
DualFollow ==
  /\ is_async
  /\ twin.pending # <<>>
  /\ Swap(twin.pending[1], twin.pending[2], twin.pending[3],
          Perform(twin.pending[1], twin.pending[2], twin.pending[3]), <<>>)
  /\ exited' = IF twin.pending[1] = "exit" THEN [exited EXCEPT ![twin.pending[2]] = TRUE]
               ELSE exited
  /\ UNCHANGED <<heap, parent, _services, returned, tasks, steps>>

\* get_scoped_injector() on both injectors.
DualScoped(i) ==
  /\ ~is_async
  /\ twin.pending = <<>>
  /\ GetScopedInjector(i)!1
  /\ GetScopedInjector(i)!2
  /\ GetScopedInjector(i)!3
  /\ GetScopedInjector(i)!4
  /\ GetScopedInjector(i)!5
  /\ GetScopedInjector(i)!6
  /\ GetScopedInjector(i)!7
  /\ GetScopedInjector(i)!8
  /\ GetScopedInjector(i)!9
  /\ GetScopedInjector(i)!10
  /\ GetScopedInjector(i)!11
  /\ twin' = [twin EXCEPT !.frames = Append(@, _set_injector_in_services(TRUE, Len(parent) + 1)),
                          !.gens = Append(@, <<>>),
                          !.agens = Append(@, <<>>),
                          !.last = [NoOp EXCEPT !.op = "get_scoped_injector", !.inj = i,
                                                !.val = 0 - (Len(parent) + 1)]]
  /\ UNCHANGED <<is_async, objs, resources, returned, tasks>>

\* A registry without asynchronous resolver, hook or context manager: a
\* generator resolver, a context-manager service and a service with a
\* dependency.
DualScripts ==
  {<<Reg(SINGLETON, <<"make_res_a">>), Reg(SCOPED, <<"Managed">>),
     Reg(TRANSIENT, <<"PartA">>), Reg(SINGLETON, <<"Engine">>)>>}

DualCallFuncs == {"drive", "make_res_a"}

NextDual ==
  \/ \E i \in Injectors : \E interface \in Requirable : DualLead("require", i, interface)
  \/ \E i \in Injectors : \E f \in DualCallFuncs : DualLead("call", i, f)
  \/ \E i \in Injectors : DualLead("exit", i, None)
  \/ DualFollow
  \/ \E i \in Injectors : DualScoped(i)

InitDual ==
  /\ InitRun(DualScripts, {FALSE})
  /\ twin = [frames |-> <<_set_injector_in_services(TRUE, 1)>>, objs |-> <<>>,
             resources |-> <<>>, gens |-> << <<>> >>, agens |-> << <<>> >>,
             last |-> NoOp, pending |-> <<>>]

SpecDual == InitDual /\ [][NextDual]_vars

(***************************************************************************)
(* Vocabulary of the properties.                                           *)
(***************************************************************************)
ScopeOf(d) == collection.resolvers[d].scope

ImplementationOf(d) == collection.resolvers[d].implementation

ResolverOf(d) == collection.resolvers[d].resolver

Cached(twrap) == \E i \in Injectors : twrap \in DOMAIN frames[i]

Succeeded(op) == last.op = op /\ last.err = NoError

\* The declared types of the parameters the registration of d resolves.
DependenciesOf(d) ==
  {collection.resolvers[d].signature[k].hint : k \in 1..Len(collection.resolvers[d].signature)}
    \cap collection.registered

RECURSIVE Reaches(_, _, _)
Reaches(d, target, n) ==
  /\ n > 0
  /\ \E e \in DependenciesOf(d) : e = target \/ Reaches(e, target, n - 1)

\* d lies on a dependency cycle of the registrations.
OnCycle(d) == Reaches(d, d, Cardinality(collection.registered))

\* The value object o received for the k-th parameter of its constructor.
ArgumentOf(o, k) ==
  LET sig == Classes[o.cls].params
      before == Cardinality({j \in 1..k : sig[j].kind = sig[k].kind})
  IN IF sig[k].kind = "pos" THEN o.args[before] ELSE o.kwargs[before]

(***************************************************************************)
(* C1: all requires of the same SINGLETON-registered descriptor, on the    *)
(* root injector and on the scoped injectors derived from it, return the   *)
(* identical instance.                                                     *)
(***************************************************************************)
C1_SingletonIdentical ==
  \A t1 \in returned : \A t2 \in returned :
    (t1[2] = t2[2] /\ ScopeOf(t1[2]) = SINGLETON) => t1[3] = t2[3]

(***************************************************************************)
(* C2: after a require of a SINGLETON-registered type has returned, every  *)
(* object built with a constructor parameter of that type holds the        *)
(* returned instance for it, also when two dependents of one tree share    *)
(* the singleton.                                                          *)
(***************************************************************************)
C2_DependentsShareSingleton ==
  (Succeeded("require") /\ ScopeOf(last.arg) = SINGLETON) =>
    \A n \in 1..Len(objs) : \A k \in 1..Len(Classes[objs[n].cls].params) :
      (Len(objs[n].args) + Len(objs[n].kwargs) = Len(Classes[objs[n].cls].params)
       /\ Classes[objs[n].cls].params[k].hint = last.arg)
        => ArgumentOf(objs[n], k) = last.val

(***************************************************************************)
(* C3: two requires of a SCOPED service on one scoped injector return the  *)
(* identical instance, and requires of it on two sibling scoped injectors  *)
(* derived from the same root return two distinct instances.               *)
(***************************************************************************)
C3_ScopedPerScope ==
  \A t1 \in returned : \A t2 \in returned :
    (t1[2] = t2[2] /\ ScopeOf(t1[2]) = SCOPED /\ parent[t1[1]] = 1 /\ parent[t2[1]] = 1) =>
      (t1[3] = t2[3] <=> t1[1] = t2[1])

(***************************************************************************)
(* C4: a require on the root injector of a SCOPED service, or of a service *)
(* not yet cached that depends on a SCOPED one, fails with                 *)
(* ScopedServiceNotAvailable and leaves no entry for the SCOPED service in *)
(* the pool.                                                               *)
(***************************************************************************)
C4_ScopedUnavailableOnRoot ==
  [][(last'.op = "require" /\ last'.inj = 1) =>
       \A d \in collection.registered :
         (/\ ScopeOf(d) = SCOPED
          /\ \/ d = last'.arg
             \/ /\ d \in DependenciesOf(last'.arg)
                /\ ImplementationOf(last'.arg) \notin DOMAIN frames[1])
           => /\ last'.err = "ScopedServiceNotAvailable"
              /\ ImplementationOf(d) \notin DOMAIN frames'[1]]_vars

(***************************************************************************)
(* C5: a successful require of a TRANSIENT-registered service never        *)
(* returns an instance that an earlier require of it returned.             *)
(***************************************************************************)
C5_TransientDistinct ==
  [][(last'.op = "require" /\ last'.err = NoError /\ ScopeOf(last'.arg) = TRANSIENT) =>
       \A t \in returned : t[2] = last'.arg => t[3] # last'.val]_vars

(***************************************************************************)
(* C6: a require of a service on a dependency cycle fails with             *)
(* CircularDependency.                                                     *)
(***************************************************************************)
C6_CycleDetected ==
  (last.op = "require" /\ OnCycle(last.arg)) => last.err = "CircularDependency"

(***************************************************************************)
(* C7: the code after the yield of a generator-based resolver has not run  *)
(* while the owning injector is open, never runs twice, and has run once   *)
(* when the exit of the owning injector is over.                           *)
(***************************************************************************)
C7_FinalizedOnceAtExit ==
  \A r \in 1..Len(resources) :
    resources[r].resolver.kind = "func" =>
      /\ resources[r].fin <= 1
      /\ ~exited[resources[r].owner] => resources[r].fin = 0
      /\ (last.op = "exit" /\ last.inj = resources[r].owner /\ resources[r].obj # 0)
           => resources[r].fin = 1

(***************************************************************************)
(* C8: an exit resumes the pending resources of the injector in the        *)
(* reverse of the order in which they were opened.                         *)
(***************************************************************************)
C8_ReverseTeardown ==
  last.op = "exit" =>
    \A k \in 1..Len(last.resumed) : \A m \in 1..Len(last.resumed) :
      k < m => last.resumed[k] > last.resumed[m]

(***************************************************************************)
(* C9: under the synchronous injector a require of a service whose         *)
(* resolver function returns an async generator, a coroutine or another    *)
(* awaitable, and a call of such a function, fail with AsyncInSyncInjector *)
(* carrying the pending object, and nothing is cached for the service.     *)
(***************************************************************************)
AsyncResults == {"asyncgen", "coroutine", "awaitable"}

C9_AsyncRejectedInSync ==
  ~is_async =>
    /\ (last.op = "require" /\ ResolverOf(last.arg).kind = "func"
        /\ Funcs[ResolverOf(last.arg).a].result \in AsyncResults)
         => /\ last.err = "AsyncInSyncInjector"
            /\ last.carried = ResolverOf(last.arg).a
            /\ ~Cached(ImplementationOf(last.arg))
    /\ (last.op = "call" /\ Funcs[last.arg].result \in AsyncResults)
         => (last.err = "AsyncInSyncInjector" /\ last.carried = last.arg)

(***************************************************************************)
(* C10: under the synchronous injector a require of a default-constructed  *)
(* service with a post-init hook that returns an awaitable fails with      *)
(* AsyncInSyncInjector and leaves the service out of the pool, so that the *)
(* next require of it fails the same way.                                  *)
(***************************************************************************)
HasAwaitableHook(d) ==
  /\ ResolverOf(d).kind = "default"
  /\ \E k \in 1..Len(get_post_inits(ImplementationOf(d))) :
       Funcs[get_post_inits(ImplementationOf(d))[k]].result \in {"coroutine", "awaitable"}

C10_AsyncHookRejectedInSync ==
  (~is_async /\ last.op = "require" /\ HasAwaitableHook(last.arg)) =>
    (last.err = "AsyncInSyncInjector" /\ ~Cached(ImplementationOf(last.arg)))

(***************************************************************************)
(* C11: the post-init hooks of a constructed instance run after its        *)
(* construction; when a hook runs, every hook declared on an ancestor of   *)
(* its class and every hook declared before it on its own class has run    *)
(* on the instance; an instance that a require returns has run all the     *)
(* hooks of its class and of its ancestors.                                *)
(***************************************************************************)
RECURSIVE Ancestors(_)
Ancestors(c) ==
  {Classes[c].bases[k] : k \in 1..Len(Classes[c].bases)}
    \cup UNION {Ancestors(Classes[c].bases[k]) : k \in 1..Len(Classes[c].bases)}

DeclaredOn(h) == CHOOSE c \in DOMAIN Classes : \E k \in 1..Len(Classes[c].hooks) : Classes[c].hooks[k] = h

\* The hooks that the declarations order before hook h.
HooksBefore(h) ==
  LET c == DeclaredOn(h)
      own == Classes[c].hooks
      at == CHOOSE k \in 1..Len(own) : own[k] = h
  IN {own[k] : k \in 1..(at - 1)}
       \cup UNION {{Classes[a].hooks[k] : k \in 1..Len(Classes[a].hooks)} : a \in Ancestors(c)}

HooksOf(c) ==
  UNION {{Classes[a].hooks[k] : k \in 1..Len(Classes[a].hooks)} : a \in Ancestors(c) \cup {c}}

IsHook(name) == \E c \in DOMAIN Classes : \E k \in 1..Len(Classes[c].hooks) : Classes[c].hooks[k] = name

LastWrite(writes, k) ==
  \A m \in (k + 1)..Len(writes) : writes[m][1] # writes[k][1] \/ writes[m][2] # writes[k][2]

C12_FailureKeepsCache ==
  [][/\ last'.err # NoError =>
          \A k \in 1..Len(last'.writes) :
            LastWrite(last'.writes, k) =>
              /\ last'.writes[k][2] \in DOMAIN frames'[last'.writes[k][1]]
              /\ frames'[last'.writes[k][1]][last'.writes[k][2]] = last'.writes[k][3]
     /\ \A i \in Injectors : \A key \in DOMAIN frames[i] :
          key \in DOMAIN frames'[i] /\ frames'[i][key] = frames[i][key]
     /\ (/\ last.err # NoError
         /\ last'.op = "require"
         /\ last'.inj = last.inj
         /\ \E k \in 1..Len(last.writes) : last.writes[k][2] = ImplementationOf(last'.arg))
        => /\ last'.err = NoError
           /\ last'.val = PoolGetInstance(parent, frames, last.inj, ImplementationOf(last'.arg))
           /\ \E k \in 1..Len(last.writes) :
                /\ LastWrite(last.writes, k)
                /\ last.writes[k][2] = ImplementationOf(last'.arg)
                /\ last.writes[k][3] = last'.val
           /\ last'.calls = <<>>
           /\ last'.writes = <<>>]_vars

\* A require of a composite has just failed after it had cached its first
\* dependency, which is still in the pool.
C12_Witness ==
  /\ last.op = "require"
  /\ last.arg = "Duo"
  /\ last.err = "UserError"
  /\ \E k \in 1..Len(last.writes) :
       /\ last.writes[k][2] = "Engine"
       /\ "Engine" \in DOMAIN frames[last.writes[k][1]]
       /\ frames[last.writes[k][1]]["Engine"] = last.writes[k][3]

(***************************************************************************)
(* C13: every object that an operation of injector i constructs receives,  *)
(* for each constructor parameter declared as the injector protocol or as  *)
(* a concrete injector class, injector i itself, whatever scoped injectors *)
(* exist.  An injector is the negative of its index.                       *)
(***************************************************************************)
InjectorTypes == {"Injector", "SyncInjector", "AsyncInjector"}

C13_ReceivesOwnInjector ==
  [][\A n \in (Len(objs) + 1)..Len(objs') :
       objs'[n].cls \in DOMAIN Classes =>
         \A k \in 1..Len(Classes[objs'[n].cls].params) :
           Classes[objs'[n].cls].params[k].hint \in InjectorTypes =>
             ArgumentOf(objs'[n], k) = 0 - last'.inj]_vars

\* A scoped injector that is not the last one derived has just built a
\* service that declares the injector protocol, and gave it itself.
C13_Witness ==
  /\ Len(parent) = 3
  /\ last.op = "require"
  /\ last.inj = 2
  /\ last.arg = "UsesInjector"
  /\ last.err = NoError
  /\ last.val = Len(objs)
  /\ objs[last.val].cls = "UsesInjector"
  /\ objs[last.val].args = <<0 - 2>>

(***************************************************************************)
(* C14: the collection the client built never holds the resolvers an       *)
(* injector adds for itself; no operation of an injector, and no           *)
(* construction of a scoped injector, changes a collection that exists;    *)
(* and a registration made after construction changes only the collection  *)
(* it is made on: the view of every other injector stays as it was, and    *)
(* so does the client's collection when the registration is made on an     *)
(* injector's copy.                                                        *)
(***************************************************************************)
C14_CopiesIndependent ==
  [][/\ "type[Any]" \notin collection'.registered
     /\ "TWrap[Any]" \notin collection'.registered
     /\ last'.op # "add_service" =>
          \A r \in 1..Len(heap) : heap'[r] = heap[r]
     /\ last'.op = "add_service" =>
          /\ \A i \in Injectors : i # last'.inj => services'[i] = services[i]
          /\ last'.inj # 0 => collection' = collection]_vars

\* The client registered PartA on its collection after the injectors were
\* built; an injector built before does not find it.
C14_Witness ==
  /\ last.op = "require"
  /\ last.arg = "PartA"
  /\ last.err = "ServiceNotFound"
  /\ "PartA" \in collection.registered
  /\ "PartA" \notin services[last.inj].registered

(***************************************************************************)
(* C15: get_metadata(d) gives the registration made for d itself when      *)
(* there is one, whatever other registrations match d; when there is none  *)
(* it gives a registration whose interface matches d; when no registered   *)
(* interface equals or matches d it fails with ServiceNotFound.            *)
(***************************************************************************)
C15_ExactThenMatching ==
  last.op = "get_metadata" =>
    /\ last.arg \in DOMAIN collection.resolvers =>
         /\ last.err = NoError
         /\ last.md = collection.resolvers[last.arg]
         /\ last.md.interface = last.arg
    /\ (/\ last.arg \notin DOMAIN collection.resolvers
        /\ \E r \in DOMAIN collection.resolvers : Matches(last.arg, r)) =>
         /\ last.err = NoError
         /\ last.md.interface \in DOMAIN collection.resolvers
         /\ Matches(last.arg, last.md.interface)
         /\ last.md = collection.resolvers[last.md.interface]
    /\ (/\ last.arg \notin DOMAIN collection.resolvers
        /\ ~ \E r \in DOMAIN collection.resolvers : Matches(last.arg, r)) =>
         last.err = "ServiceNotFound"

\* The exact registration was returned although a catch-all and a partially
\* specialized registration match the descriptor too.
C15_Witness ==
  /\ last.op = "get_metadata"
  /\ last.arg = "Table[int, str]"
  /\ {"Table[int, str]", "Table[int, Any]", "Table[Any, Any]"} \subseteq collection.registered
  /\ last.md.interface = "Table[int, str]"

(***************************************************************************)
(* C16: with one SINGLETON registration of the catch-all descriptor of a   *)
(* generic class, the requires of two different specializations on one     *)
(* injector return two different instances, each constructed with the type *)
(* argument of the specialization it was required for.                     *)
(***************************************************************************)
C16_SpecializationsDistinct ==
  \A t1 \in returned : \A t2 \in returned :
    (/\ t1[1] = t2[1]
     /\ t1[2] \in Specializations
     /\ t2[2] \in Specializations
     /\ t1[2] # t2[2]) =>
      /\ t1[3] # t2[3]
      /\ objs[t1[3]].args = <<TypeTokens[TypeArguments[t1[2]]]>>
      /\ objs[t2[3]].args = <<TypeTokens[TypeArguments[t2[2]]]>>

(***************************************************************************)
(* C17: when two SINGLETON registrations have the same implementation,     *)
(* the requires of their interfaces on one injector return the identical   *)
(* instance, whichever was required first.                                 *)
(***************************************************************************)
C17_SharedImplementationIdentical ==
  \A t1 \in returned : \A t2 \in returned :
    (/\ t1[1] = t2[1]
     /\ ScopeOf(t1[2]) = SINGLETON
     /\ ScopeOf(t2[2]) = SINGLETON
     /\ ImplementationOf(t1[2]) = ImplementationOf(t2[2])) => t1[3] = t2[3]

\* The implementation was required first and the interface bound to it has
\* just been required from the same injector: no constructor ran again.
C17_Witness ==
  /\ last.op = "require"
  /\ last.arg = "Base"
  /\ last.err = NoError
  /\ last.calls = <<>>
  /\ <<last.inj, "Impl", last.val>> \in returned
  /\ <<last.inj, "Base", last.val>> \in returned

(***************************************************************************)
(* C18: a registration for an interface that already has an entry fails,   *)
(* whatever the scopes and shapes of the two registrations; the collection *)
(* is as before and get_metadata of the interface gives the first entry.   *)
(***************************************************************************)
C18_DuplicateRejected ==
  [][(/\ last'.op = "add_service"
      /\ last'.md.resolver.kind # "invalid"
      /\ last'.md.interface \in DOMAIN collection.resolvers) =>
       /\ last'.err # NoError
       /\ collection' = collection
       /\ get_metadata(collection', last'.md.interface)
            = collection.resolvers[last'.md.interface]]_vars

\* A registration of another shape and scope for a registered interface has
\* just failed.
C18_Witness ==
  /\ last.op = "add_service"
  /\ last.err = "ValueError"
  /\ last.md.interface \in collection.registered
  /\ collection.resolvers[last.md.interface].scope # last.md.scope
  /\ collection.resolvers[last.md.interface].resolver.kind # last.md.resolver.kind

(***************************************************************************)
(* C19: a registration of an interface with an implementation that does    *)
(* not satisfy it (the implementation is neither the interface nor one of  *)
(* its descendants) fails with IncompatibleInterface.                      *)
(***************************************************************************)
Satisfies(implementation, interface) ==
  implementation = interface \/ interface \in Ancestors(implementation)

C19_IncompatibleRejected ==
  (/\ last.op = "add_service"
   /\ last.md.resolver.kind = "default"
   /\ ~Satisfies(last.md.implementation, last.md.interface)) =>
    last.err = "IncompatibleInterface"

(***************************************************************************)
(* C20: right after a successful registration its interface is registered, *)
(* and no descriptor is registered that neither equals nor matches the     *)
(* interface of an entry; is_registered answers True exactly for the       *)
(* descriptors that equal or match the interface of an entry, so not for a *)
(* type that is only the implementation of an entry.                       *)
(***************************************************************************)
C20_RegisteredInterfacesOnly ==
  [][/\ (last'.op = "add_service" /\ last'.err = NoError) =>
          /\ is_registered(collection', last'.md.interface)
          /\ \A d \in Descriptors :
               (~ \E r \in DOMAIN collection'.resolvers : r = d \/ Matches(d, r)) =>
                 ~is_registered(collection', d)
     /\ last'.op = "is_registered" =>
          (last'.val = 1 <=>
             \E r \in DOMAIN collection.resolvers : r = last'.arg \/ Matches(last'.arg, r))]_vars

\* Impl is the implementation of the entry of Base and has no entry of its
\* own: is_registered(Impl) has just answered False.
C20_Witness ==
  /\ last.op = "is_registered"
  /\ last.arg = "Impl"
  /\ last.val = 0
  /\ "Base" \in collection.registered
  /\ collection.resolvers["Base"].implementation = "Impl"

(***************************************************************************)
(* C21: an instance built by the default resolver that is a context        *)
(* manager the injector handles (synchronous under both injectors,         *)
(* asynchronous under the asynchronous one) is entered once when it is     *)
(* resolved, is not exited while the injector that resolved it is open, is *)
(* never exited twice, and is exited when the exit of that injector is     *)
(* over.                                                                   *)
(***************************************************************************)
Handled(cls) ==
  IF is_async THEN Classes[cls].cm \in {"sync", "async"} ELSE Classes[cls].cm = "sync"

C21_EnteredThenExitedAtExit ==
  \A r \in 1..Len(resources) :
    (/\ resources[r].resolver.kind = "default"
     /\ resources[r].obj # 0
     /\ Handled(objs[resources[r].obj].cls)) =>
      /\ objs[resources[r].obj].entered = 1
      /\ objs[resources[r].obj].exited <= 1
      /\ ~exited[resources[r].owner] => objs[resources[r].obj].exited = 0
      /\ (last.op = "exit" /\ last.inj = resources[r].owner) =>
           objs[resources[r].obj].exited = 1

(***************************************************************************)
(* C22: require(d) fails with ServiceNotFoundError exactly when d, or the  *)
(* declared type of a parameter met while the dependency tree of d is      *)
(* planned, has no exact registration, no generically matching             *)
(* registration and no instance in the frame chain of the injector.        *)
(***************************************************************************)
InFrameChain(i, d) ==
  \E k \in 1..Len(Chain(parent, i)) : d \in DOMAIN frames[Chain(parent, i)[k]]

Unknown(i, d) ==
  /\ d \notin services[i].registered
  /\ ~\E g \in services[i].registered : Matches(d, g)
  /\ ~InFrameChain(i, d)

\* Some descriptor looked up while the tree of d is planned is unknown.
RECURSIVE TreeUnknown(_, _, _, _)
TreeUnknown(i, d, origin, n) ==
  \/ Unknown(i, d)
  \/ /\ n > 0
     /\ is_registered(services[i], d)
     /\ ~InFrameChain(i, get_metadata(services[i], d).implementation)
     /\ \E k \in 1..Len(get_metadata(services[i], d).hints) :
          /\ get_metadata(services[i], d).hints[k].hint # None
          /\ TreeUnknown(i, get_signature_hints(get_metadata(services[i], d).hints[k].hint,
                                                origin),
                         origin, n - 1)

C22_NotFoundExactlyWhenUnknown ==
  [][\A i \in Injectors : \A d \in Requirable \cup Strays :
       (last'.op = "require" /\ last'.inj = i /\ last'.arg = d) =>
         ((last'.err = "ServiceNotFound") <=> TreeUnknown(i, d, d, RecursionLimit))]_vars

C22_Witness ==
  /\ last.op = "require"
  /\ last.arg = "NeedsImpl"
  /\ last.err = "ServiceNotFound"
  /\ last.calls = <<>>
  /\ "NeedsImpl" \in collection.registered
  /\ Unknown(last.inj, "Impl")

(***************************************************************************)
(* C23: a require that starts on an asynchronous injector while another    *)
(* require of the same descriptor is suspended on that injector, the       *)
(* descriptor not being cached yet, is not coalesced with it: it plans its *)
(* own tree with the resolver of the registration and invokes the resolver *)
(* itself (it suspends in its own invocation), and every resumed           *)
(* invocation runs the body of its resolver and returns what that body     *)
(* built.                                                                  *)
(***************************************************************************)
InFlight(a, i, d) ==
  /\ tasks[a].state = "suspended"
  /\ tasks[a].inj = i
  /\ tasks[a].interface = d

C23_NotCoalesced ==
  [][/\ \A a \in 1..Len(tasks) :
          (/\ last'.op = "start"
           /\ Len(tasks') = Len(tasks) + 1
           /\ InFlight(a, tasks'[Len(tasks')].inj, tasks'[Len(tasks')].interface)
           /\ ~InFrameChain(tasks[a].inj, tasks[a].interface)) =>
             /\ tasks'[Len(tasks')].planned = get_metadata(collection, tasks[a].interface).resolver.kind
             /\ tasks'[Len(tasks')].planned = tasks[a].planned
             /\ tasks'[Len(tasks')].state = "suspended"
             /\ tasks'[Len(tasks')].stack[1].node.resolver = tasks[a].stack[1].node.resolver
             /\ Len(tasks[a].stack) = 1 => tasks'[Len(tasks')].stack = tasks[a].stack
     /\ \A n \in 1..Len(tasks) :
          (/\ last'.op = "resume"
           /\ tasks'[n] # tasks[n]
           /\ Len(tasks[n].stack) = 1) =>
             /\ tasks[n].stack[1].node.resolver.a \in {last'.calls[k] : k \in 1..Len(last'.calls)}
             /\ tasks'[n].state = "done"
             /\ tasks'[n].val = Len(objs')
             /\ Len(objs') = Len(objs) + 1]_vars

C23_Witness ==
  \E a, b \in 1..Len(tasks) :
    /\ a < b
    /\ tasks[a].inj = tasks[b].inj
    /\ tasks[a].interface = "Coro"
    /\ tasks[b].interface = "Coro"
    /\ ScopeOf("Coro") = SINGLETON
    /\ tasks[a].state = "done"
    /\ tasks[b].state = "done"
    /\ tasks[a].val # tasks[b].val

(***************************************************************************)
(* C24: within one require on the asynchronous injector the resolution of  *)
(* a node starts only when every resolution started before it, other than  *)
(* those of its ancestors, is over: siblings are resolved one after the    *)
(* other in declaration order, each one completely, resolver awaits        *)
(* included, before the next one starts.                                   *)
(***************************************************************************)
Opened(events, q) ==
  Cardinality({p \in 1..(q - 1) : events[p][1] = "begin"})
    - Cardinality({p \in 1..(q - 1) : events[p][1] = "end"})

InjectorKeys == {"Injector", "SyncInjector", "AsyncInjector"}

SameValue(objs1, v1, objs2, v2) ==
  IF v1 > 0 /\ v2 > 0 /\ v1 <= Len(objs1) /\ v2 <= Len(objs2)
  THEN v1 = v2 /\ objs1[v1].cls = objs2[v2].cls /\ objs1[v1].args = objs2[v2].args
  ELSE v1 = v2

C25_SyncAsyncSame ==
  (~is_async /\ twin.pending = <<>> /\ last.op \in {"require", "call", "exit"}) =>
    /\ last.calls = twin.last.calls
    /\ last.err = twin.last.err
    /\ SameValue(objs, last.val, twin.objs, twin.last.val)
    /\ \A i \in Injectors :
         /\ DOMAIN frames[i] \ InjectorKeys = DOMAIN twin.frames[i] \ InjectorKeys
         /\ \A k \in DOMAIN frames[i] \ InjectorKeys :
              SameValue(objs, frames[i][k], twin.objs, twin.frames[i][k])

(***************************************************************************)
(* C26: a require of a descriptor whose instance is in the frame chain of  *)
(* the injector (under the implementation of its registration, or under    *)
(* the descriptor itself when it is not registered) returns that instance  *)
(* and runs no user code: no resolver, constructor or hook is invoked, no  *)
(* object is built, no resource is opened and the pool is not written.     *)
(***************************************************************************)
CacheKey(i, d) ==
  IF is_registered(services[i], d) THEN get_metadata(services[i], d).implementation ELSE d

C26_CachedNotResolved ==
  [][\A i \in Injectors : \A d \in Requirable \cup Strays :
       (/\ last'.op = "require" /\ last'.inj = i /\ last'.arg = d
        /\ steps' = steps + 1
        /\ InFrameChain(i, CacheKey(i, d))) =>
         /\ last'.err = NoError
         /\ last'.val = PoolGetInstance(parent, frames, i, CacheKey(i, d))
         /\ last'.calls = <<>>
         /\ last'.writes = <<>>
         /\ objs' = objs
         /\ resources' = resources
         /\ frames' = frames]_vars

C26_Witness ==
  /\ last.op = "require"
  /\ last.arg = "NeedsImpl"
  /\ last.err = NoError
  /\ last.calls = <<>>
  /\ last.val > 0
  /\ objs[last.val].cls = "NeedsImpl"
  /\ Len(objs[last.val].args) = 1
  /\ Len(objs[last.val].kwargs) = 1

(***************************************************************************)
(* C27: every entry of the pool other than the injectors themselves, and   *)
(* every write an operation makes, is either in the root frame under the   *)
(* implementation of a SINGLETON registration or in the frame of a scoped  *)
(* injector under the implementation of a SCOPED registration, and a       *)
(* SCOPED write goes to the frame of the injector that resolved it; no     *)
(* entry is written for a TRANSIENT or IMMEDIATE node.                     *)
(***************************************************************************)
WrittenAs(key, scope) ==
  \E r \in collection.registered :
    ImplementationOf(r) = key /\ ScopeOf(r) = scope

C27_EntriesByScope ==
  /\ \A i \in Injectors : \A key \in DOMAIN frames[i] \ InjectorKeys :
       \/ WrittenAs(key, SINGLETON) /\ parent[i] = 0
       \/ WrittenAs(key, SCOPED) /\ parent[i] # 0
  /\ last.op \in {"require", "call"} =>
       \A w \in 1..Len(last.writes) :
         \/ WrittenAs(last.writes[w][2], SINGLETON) /\ parent[last.writes[w][1]] = 0
         \/ /\ WrittenAs(last.writes[w][2], SCOPED)
            /\ last.writes[w][1] = last.inj
            /\ parent[last.inj] # 0

C27_Witness ==
  /\ last.op = "require"
  /\ last.arg = "Duo"
  /\ ScopeOf("Engine") = SCOPED
  /\ parent[last.inj] # 0
  /\ last.writes # <<>>
  /\ last.writes[1][1] = last.inj
  /\ \E j \in Injectors : parent[j] # 0 /\ j # last.inj /\ "Engine" \in DOMAIN frames[j]

(***************************************************************************)
(* C28: the pending resource of an instance cached in the root frame (a    *)
(* resolved SINGLETON) is torn down only by the exit of the root injector: *)
(* while the root injector is open the code after the yield of its         *)
(* generator resolver has not run and the instance has not been exited,    *)
(* whichever injector performed the resolution.                            *)
(***************************************************************************)
InRootFrame(obj) ==
  \E i \in Injectors : parent[i] = 0 /\ \E key \in DOMAIN frames[i] : frames[i][key] = obj

C28_SingletonTornDownAtRootExit ==
  \A r \in 1..Len(resources) :
    (/\ resources[r].obj > 0
     /\ InRootFrame(resources[r].obj)
     /\ \/ resources[r].resolver.kind = "func" /\ resources[r].fin > 0
        \/ objs[resources[r].obj].exited > 0) =>
       \E i \in Injectors : parent[i] = 0 /\ exited[i]

(***************************************************************************)
(* C29: when the exit of an injector is over, every pending resource the   *)
(* injector owns that had reached its yield has been resumed exactly once, *)
(* also when the resumption of another one failed; the end of a generator  *)
(* is no error, so that an exit fails only with the failure of the code    *)
(* after a yield.                                                          *)
(***************************************************************************)
OwnedBy(i) == {r \in 1..Len(resources) : resources[r].owner = i /\ resources[r].obj # 0}

C29_EachResumedOnce ==
  last.op = "exit" =>
    /\ \A r \in OwnedBy(last.inj) : resources[r].fin = 1 /\ resources[r].state = "done"
    /\ last.err # NoError =>
         \E k \in 1..Len(last.resumed) :
           /\ resources[last.resumed[k]].resolver.kind = "func"
           /\ Funcs[resources[last.resumed[k]].resolver.a].teardown = "raise"

(***************************************************************************)
(* C30: when a require or call fails and the injector exits next, every    *)
(* pending resource the failed operation opened for the instances it wrote *)
(* to the pool is resumed by that exit.                                    *)
(***************************************************************************)
WrittenBy(op) == {op.writes[w][3] : w \in 1..Len(op.writes)}

C30_TornDownAfterFailure ==
  [][(/\ last.op \in {"require", "call"}
      /\ last.err # NoError
      /\ last'.op = "exit"
      /\ steps' = steps + 1
      /\ last'.inj = last.inj) =>
        \A r \in OwnedBy(last.inj) :
          (resources[r].obj \in WrittenBy(last) /\ resources[r].state = "suspended") =>
            /\ resources'[r].state = "done"
            /\ resources'[r].fin = 1]_vars

(***************************************************************************)
(* C31: a require that follows the exit of its injector does not return an *)
(* instance the frame of that injector held when the exit was over: the    *)
(* frame is destroyed with the scope.                                      *)
(***************************************************************************)
HeldBy(i) == {frames[i][key] : key \in DOMAIN frames[i] \ InjectorKeys}

C31_FrameGoneAfterExit ==
  [][(/\ last.op = "exit"
      /\ last'.op = "require"
      /\ steps' = steps + 1
      /\ last'.inj = last.inj
      /\ last'.err = NoError) =>
        last'.val \notin HeldBy(last.inj)]_vars

(***************************************************************************)
(* C32: a require of a SCOPED registration on the root injector fails with *)
(* ScopedServiceNotAvailable and has run no user code of the service: no   *)
(* resolver, constructor or hook was invoked, no object was built and no   *)
(* pending resource was opened.                                            *)
(***************************************************************************)
C32_ScopedRejectedBeforeResolving ==
  [][(/\ last'.op = "require"
      /\ steps' = steps + 1
      /\ parent[last'.inj] = 0
      /\ last'.arg \in collection.registered
      /\ ScopeOf(last'.arg) = SCOPED) =>
        /\ last'.err = "ScopedServiceNotAvailable"
        /\ last'.calls = <<>>
        /\ objs' = objs
        /\ resources' = resources]_vars

(***************************************************************************)
(* Planning failures: Duo needs Broken, which nobody registered, and Loose *)
(* has a constructor parameter without a type hint; both come after a      *)
(* parameter that can be planned.                                          *)
(***************************************************************************)
PlanningScripts ==
  {<<Reg(SINGLETON, <<"Engine">>), Reg(TRANSIENT, <<"Duo">>), Reg(SINGLETON, <<"Loose">>)>>}

PlanningCallFuncs == {"drive_duo", "drive_loose"}

NextPlanning ==
  \/ Next
  \/ \E i \in Injectors : \E f \in PlanningCallFuncs : Call(i, f)

SpecPlanning == InitWith(PlanningScripts, BOOLEAN) /\ [][NextPlanning]_vars

(* C33: a require or a call that fails with ServiceNotFound or              *)
(* MissingTypeHint while the dependency tree is built has invoked no       *)
(* resolver, opened no pending resource and changed no frame, at whatever  *)
(* depth of the tree the parameter is that cannot be planned.              *)
C33_PlanningHasNoEffect ==
  [][(/\ steps' = steps + 1
      /\ last'.op \in {"require", "call"}
      /\ last'.err \in {"ServiceNotFound", "MissingTypeHint"}) =>
        /\ last'.calls = <<>>
        /\ last'.writes = <<>>
        /\ objs' = objs
        /\ resources' = resources
        /\ frames' = frames
        /\ generators_to_close' = generators_to_close
        /\ async_generators_to_close' = async_generators_to_close]_vars

\* A call failed at depth two of its tree although its first parameter is a
\* registered service, and a require failed on a missing hint.
C33_Witness ==
  /\ last.op = "call"
  /\ last.arg \in PlanningCallFuncs
  /\ last.err \in {"ServiceNotFound", "MissingTypeHint"}
  /\ \E t \in returned : t[2] = "Engine"
(***************************************************************************)
(* Post-init hooks that fail or that ask for the service under             *)
(* construction: HookedBroken's second hook raises, the hook of ServiceA   *)
(* takes a ServiceA.                                                       *)
(***************************************************************************)
PostInitScripts ==
  {<<Reg(SINGLETON, <<"ServiceA">>), Reg(SINGLETON, <<"Engine">>)>>,
   <<Reg(SINGLETON, <<"HookedBroken">>), Reg(SINGLETON, <<"Hooked">>)>>}

SpecPostInit == InitWith(PostInitScripts, BOOLEAN) /\ [][Next]_vars

\* The instances the frames hold, over all injectors.
Pooled == UNION {HeldBy(i) : i \in Injectors}

\* The hooks that the default resolver runs on instance o have all returned.
HooksCompleted(o) == objs[o].hooklog = get_post_inits(objs[o].cls)

(* C34: the pool holds a default-built instance only once all its post-init *)
(* hooks returned.  An instance one of whose hooks failed is in no frame,  *)
(* and while a hook runs the instance under construction is not in the     *)
(* pool: the hook of ServiceA asks for a ServiceA and is never handed the  *)
(* one being built, so the hook of no ServiceA ever ran.                   *)
C34_PooledAfterHooks ==
  /\ \A o \in 1..Len(objs) : o \in Pooled => HooksCompleted(o)
  /\ \A o \in 1..Len(objs) : objs[o].cls = "ServiceA" => objs[o].hooklog = <<>>

\* The second hook of a HookedBroken raised after the first had run, and a
\* Hooked came into the pool with its hooks completed.
C34_Witness ==
  /\ last.op = "require"
  /\ last.arg = "HookedBroken"
  /\ last.err = "UserError"
  /\ \E o \in 1..Len(objs) : objs[o].cls = "HookedBroken" /\ objs[o].hooklog = <<"hook_plain">>
  /\ \E o \in Pooled : objs[o].cls = "Hooked"
\* The number of times hook f was invoked on instance o.
Invocations(o, f) == Cardinality({k \in 1..Len(objs[o].hooklog) : objs[o].hooklog[k] = f})

\* The hooks declared on class c or on one of its ancestors.
RECURSIVE DeclaredHooks(_)
DeclaredHooks(c) ==
  {Classes[c].hooks[k] : k \in 1..Len(Classes[c].hooks)}
    \cup UNION {DeclaredHooks(Classes[c].bases[k]) : k \in 1..Len(Classes[c].bases)}

(* C35: on every instance that the default resolver has built and handed   *)
(* to the pool, each post-init hook declared on its class or on an ancestor *)
(* was invoked exactly once, also when the ancestor is reached through two *)
(* inheritance paths.                                                      *)
C35_EachHookOnce ==
  \A o \in Pooled : o \in 1..Len(objs) =>
    \A f \in DeclaredHooks(objs[o].cls) : Invocations(o, f) = 1
\* The number of times name occurs in the log of user code of an operation.
TimesRan(calls, name) == Cardinality({k \in 1..Len(calls) : calls[k] = name})

(* C36: a call of f keeps nothing of f in the pool: the value it returns is *)
(* in no frame and a call that succeeds has invoked f once, each time anew, *)
(* and returns a new value; every frame entry that a call adds or changes  *)
(* is the entry of a SINGLETON or SCOPED registration that the call wrote  *)
(* while resolving the parameters of f.                                    *)
C36_CallKeepsNothing ==
  [][(/\ steps' = steps + 1
      /\ last'.op = "call") =>
        /\ last'.err = NoError =>
              /\ TimesRan(last'.calls, last'.arg) = 1
              /\ last'.val = Len(objs')
              /\ Len(objs') > Len(objs)
              /\ \A i \in Injectors : \A key \in DOMAIN frames'[i] :
                    frames'[i][key] # last'.val
        /\ \A i \in Injectors : \A key \in DOMAIN frames'[i] :
              (key \notin DOMAIN frames[i] \/ frames'[i][key] # frames[i][key]) =>
                /\ key # Funcs[last'.arg].returns
                /\ WrittenAs(key, SINGLETON) \/ WrittenAs(key, SCOPED)
                /\ \E w \in 1..Len(last'.writes) :
                      last'.writes[w] = <<i, key, frames'[i][key]>>]_vars

\* The same function was called twice with success: two results exist, the
\* dependency is in the pool and no result is.
C36_Witness ==
  /\ last.op = "call"
  /\ last.arg = "drive"
  /\ last.err = NoError
  /\ Cardinality({o \in 1..Len(objs) : objs[o].cls = "Trip"}) = 2
  /\ \E i \in Injectors : "Engine" \in DOMAIN frames[i]
  /\ \A o \in Pooled : o \in 1..Len(objs) => objs[o].cls # "Trip"
(***************************************************************************)
(* A class with a post-init hook and the enter/exit protocol, registered   *)
(* once with a resolver function that returns its instances and once as a  *)
(* type.                                                                   *)
(***************************************************************************)
FunctionScripts ==
  {<<Reg(sc, <<"make_hooked_managed">>), Reg(SINGLETON, <<"Engine">>)>>
     : sc \in {SINGLETON, TRANSIENT}}
    \cup {<<Reg(SINGLETON, <<"HookedManaged">>), Reg(SINGLETON, <<"Engine">>)>>}

SpecFunction == InitWith(FunctionScripts, BOOLEAN) /\ [][Next]_vars

\* Instance o is what the resolver function registered for its class returned.
FunctionBuilt(o) ==
  /\ objs[o].cls \in collection.registered
  /\ ResolverOf(objs[o].cls).kind = "func"

(* C37: of a service registered with a resolver function the engine only   *)
(* invokes the function, with the resolved arguments: the instance it      *)
(* returned has run no post-init hook, was never entered nor exited, and   *)
(* no pending resource of any injector holds it, although its class        *)
(* declares a hook and the enter/exit protocol; the user code a require of *)
(* the service ran is the function alone, after its dependencies.          *)
C37_FunctionOnlyInvoked ==
  /\ \A o \in 1..Len(objs) : FunctionBuilt(o) =>
        /\ objs[o].hooklog = <<>>
        /\ objs[o].entered = 0
        /\ objs[o].exited = 0
        /\ \A r \in 1..Len(resources) : resources[r].obj # o
        /\ \A k \in 1..Len(objs[o].args) : objs[objs[o].args[k]].cls = "Engine"
  /\ (/\ last.op = "require"
      /\ last.arg \in collection.registered
      /\ ResolverOf(last.arg).kind = "func") =>
        \A k \in 1..Len(last.calls) : last.calls[k] \in {ResolverOf(last.arg).a, "Engine"}

\* The function was invoked for a require, its instance is in the pool and
\* the injector that holds it was exited since.
C37_Witness ==
  /\ last.op = "exit"
  /\ last.inj = 1
  /\ \E o \in Pooled : /\ o \in 1..Len(objs)
                        /\ FunctionBuilt(o)
                        /\ objs[o].cls = "HookedManaged"
                        /\ Len(objs[o].args) = 1
(* C38: whatever the number of exits of an injector, each of its pending   *)
(* resources is advanced exactly one step after its yield: once an exit of *)
(* the injector is over, the code after the yield of every pending         *)
(* resource of the injector has run once, and a resource that was already  *)
(* finished before the exit is left as it was.                             *)
C38_OneStepWhateverExits ==
  [][(/\ steps' = steps + 1
      /\ last'.op = "exit") =>
        \A r \in OwnedBy(last'.inj) :
          /\ resources'[r].fin = 1
          /\ resources[r].state = "done" => resources'[r] = resources[r]]_vars
====
